---- MODULE Spec2Model ----
(***************************************************************************)
(* The DART tasking core of DASH: work-stealing scheduler, data-dependency *)
(* resolver and phase-aware release protocol, as one participant runs it.  *)
(* Threads are modelled by a stack of frames each (the C call stack of     *)
(* handle_task / task_complete / create_task), task records by their       *)
(* fields, and the remote participants and the transport by actions that   *)
(* deliver inbound messages at the progress points of the threads.         *)
(***************************************************************************)
EXTENDS Integers, Sequences, FiniteSets, TLC

(* ----------------------------- bounds --------------------------------- *)
NumThreads == 2        \* threads of the pool, thread 0 is the master
MaxTasks   == 3        \* task records calloc may hand out
MaxCreates == 3        \* calls of create_task in one behaviour
MaxPhase   == 1        \* calls of phase() in one behaviour
MaxRemote  == 1        \* inbound remote dependency requests in one behaviour
MaxCompletes == 2      \* calls of task_complete on the root task
MaxIdlePhases == 3     \* calls of phase() while no task is created
MaxInbound == 2        \* inbound requests of any type while no task is created

(* ------------------------- program constants --------------------------- *)
DART_DEPHASH_SIZE == 1024

Root    == 0           \* &root_task
NULL    == 0 - 1       \* null task pointer
NoThread == 0 - 1      \* mutex not held
Master  == 0

Pool    == 0 .. (NumThreads - 1)   \* the thread ids of the default pool
Recs    == 1 .. MaxTasks
Tasks   == 0 .. MaxTasks

\* region offsets (8-byte aligned); AddrC shares the bucket of AddrA
AddrA == 8 * 1
AddrB == 8 * 2
AddrC == 8 * 1033
Addrs == {AddrA, AddrB, AddrC}

(* ----------------------------- hashing --------------------------------- *)
RECURSIVE Xor(_, _)
Xor(a, b) ==
  IF a = 0 THEN b
  ELSE IF b = 0 THEN a
  ELSE (((a % 2) + (b % 2)) % 2) + (2 * Xor(a \div 2, b \div 2))

Shr(x, n) == x \div (2 ^ n)

hash_gptr(offs) ==
  LET offset == Shr(offs, 3)
  IN  (Xor(Xor(Xor(offset, Shr(offset, 7)), Shr(offset, 11)), Shr(offset, 17)))
        % DART_DEPHASH_SIZE

Slots == {hash_gptr(a) : a \in Addrs}

IS_OUT_DEP(type) == type \in {"OUT", "INOUT"}

(* ------------------------------ state ---------------------------------- *)
VARIABLES
  state,             \* task->state, "NONE" for a record not yet allocated
  parent,            \* task->parent
  num_children,      \* task->num_children
  unresolved_deps,   \* task->unresolved_deps
  phase,             \* task->phase; phase[Root] is the phase counter
  successor,         \* task->successor, newest first
  dangling,          \* task->successor still points at deallocated elements
  remote_successor,  \* task->remote_successor, newest first
  has_ref,           \* task->has_ref
  mutex,             \* task->mutex: the thread holding it, or NoThread
  local_deps,        \* the dependency hash, bucket -> records newest first
  unhandled_remote_deps,
  deferred_remote_releases,
  phase_bound,
  queue,             \* thread->queue, head first
  defered_queue,     \* thread->defered_queue, head first
  task_recycle_list,
  task_free_list,
  task_recycle_mutex, \* the thread that holds it, NoThread if unlocked
  current_task,      \* thread->current_task
  parallel,
  num_threads,       \* threads of the pool, fixed by dart__tasking__init
  initialized,
  stk,               \* per thread: the stack of call frames
  handles,           \* task references the application holds
  owed,              \* per task: releases remote participants still owe it
  msgs,              \* messages handed to the transport, oldest first
  crashed,           \* the process died (null dereference)
  ncreated, nphases, nremote, ncompletes,   \* input counters
  invoked,           \* per record: calls of its function since creation
  enqueued,          \* per record: calls of enqueue_runnable since creation
  preds,             \* per record: tasks whose successor list it entered
  drained,           \* last record release_deferred_remote_releases handled
  born,              \* per record: root task_completes returned at creation
  nreturned,         \* root task_completes that returned
  decl,              \* per record: the dependencies it was created with
  seqno,             \* per record: its position in the order of creation
  fin,               \* per record: times it reached FINISHED since creation
  href,              \* per record: created by create_task_handle
  ret                \* the last return code of a call that validates its
                     \* arguments: function, kind of argument, phase
                     \* argument, code

taskv == <<state, parent, num_children, unresolved_deps, phase, successor,
           dangling, remote_successor, has_ref, mutex>>
depv  == <<local_deps, unhandled_remote_deps, deferred_remote_releases>>
quev  == <<queue, defered_queue>>
memv  == <<task_recycle_list, task_free_list, task_recycle_mutex>>
poolv == <<parallel, num_threads, initialized>>
envv  == <<owed, msgs>>
cntv  == <<ncreated, nphases, nremote, ncompletes>>
histv == <<invoked, enqueued, preds, drained>>
ghostv == <<born, nreturned, decl, seqno, fin, href, ret>>

vars == <<taskv, depv, quev, memv, envv, cntv, histv, ghostv, phase_bound,
          current_task, poolv, stk, handles, crashed>>

\* the thread ids of the pool
Threads == 0 .. (num_threads - 1)

(* ------------------------------ frames --------------------------------- *)
\* One frame per active C function of interest.  Fields not used by a frame
\* keep their value from F0.  seen is history: the tasks the scan of
\* release_unhandled_remote found active with an OUT-like record on the
\* region of the request, each with the phase it had then.
F0 == [pc |-> "main", task |-> Root, prev |-> Root, deps |-> <<>>,
       i |-> 0, k |-> 0, cand |-> NULL, dcand |-> NULL, ref |-> FALSE,
       seen |-> {}]

Top(th)        == stk[th][Len(stk[th])]
Below(th)      == SubSeq(stk[th], 1, Len(stk[th]) - 1)
SetTop(th, f)  == [stk EXCEPT ![th] = Below(th) \o <<f>>]
Push(th, f)    == [stk EXCEPT ![th] = @ \o <<f>>]
PushOn(th, g, f) == [stk EXCEPT ![th] = Below(th) \o <<g, f>>]
Pop(th)        == [stk EXCEPT ![th] = Below(th)]

Suffix(s, n) == IF n > Len(s) THEN <<>> ELSE SubSeq(s, Len(s) - n + 1, Len(s))


(* ------------------------------- Init ---------------------------------- *)
\* The state dart__tasking__init leaves: root task, empty queues and hash,
\* the master in the application code, the workers at the top of thread_main.
InitPool(n) ==
  /\ num_threads      = n
  /\ initialized      = TRUE
  /\ state            = [t \in Tasks |-> IF t = Root THEN "ROOT" ELSE "NONE"]
  /\ parent           = [t \in Tasks |-> NULL]
  /\ num_children     = [t \in Tasks |-> 0]
  /\ unresolved_deps  = [t \in Tasks |-> 0]
  /\ phase            = [t \in Tasks |-> 0]
  /\ successor        = [t \in Tasks |-> <<>>]
  /\ dangling         = [t \in Tasks |-> FALSE]
  /\ remote_successor = [t \in Tasks |-> <<>>]
  /\ has_ref          = [t \in Tasks |-> FALSE]
  /\ mutex            = [t \in Tasks |-> NoThread]
  /\ local_deps       = [s \in Slots |-> <<>>]
  /\ unhandled_remote_deps    = <<>>
  /\ deferred_remote_releases = <<>>
  /\ phase_bound      = 0
  /\ queue            = [th \in Threads |-> <<>>]
  /\ defered_queue    = [th \in Threads |-> <<>>]
  /\ task_recycle_list = <<>>
  /\ task_free_list    = <<>>
  /\ task_recycle_mutex = NoThread
  /\ current_task     = [th \in Threads |-> Root]
  /\ parallel         = TRUE
  /\ stk = [th \in Threads |->
              <<[F0 EXCEPT !.pc = IF th = Master THEN "main" ELSE "loop"]>>]
  /\ handles  = {}
  /\ owed     = [t \in Tasks |-> 0]
  /\ msgs     = <<>>
  /\ crashed  = FALSE
  /\ ncreated = 0 /\ nphases = 0 /\ nremote = 0 /\ ncompletes = 0
  /\ invoked  = [t \in Tasks |-> 0]
  /\ enqueued = [t \in Tasks |-> 0]
  /\ preds    = [t \in Tasks |-> {}]
  /\ drained  = NULL
  /\ born     = [t \in Tasks |-> 0]
  /\ nreturned = 0
  /\ decl     = [t \in Tasks |-> <<>>]
  /\ seqno    = [t \in Tasks |-> 0]
  /\ fin      = [t \in Tasks |-> 0]
  /\ href     = [t \in Tasks |-> FALSE]
  /\ ret      = [fn |-> "none", arg |-> "none", num |-> 0, code |-> "DART_OK"]

Init == InitPool(NumThreads)

(* -------------------------- scheduler helpers -------------------------- *)
\* dart__tasking__enqueue_runnable: the queue the task goes to
IsDefered(t) == phase[t] > phase_bound

enqueue_runnable(th, t) ==
  /\ queue' = IF IsDefered(t) THEN queue
              ELSE [queue EXCEPT ![th] = <<t>> \o @]
  /\ defered_queue' = IF IsDefered(t)
                      THEN [defered_queue EXCEPT ![th] = <<t>> \o @]
                      ELSE defered_queue
  /\ enqueued' = [enqueued EXCEPT ![t] = @ + 1]

NoEnqueue == UNCHANGED <<queue, defered_queue, enqueued>>

\* a popback that hands out the last task but unlinks the first
taskqueue_popback_head(q) == Tail(q)

\* dart_tasking_taskqueue_pop / popback on a queue value
taskqueue_pop(q)     == Tail(q)
taskqueue_popback(q) == SubSeq(q, 1, Len(q) - 1)

\* next_task: own queue first, then steal round-robin starting to the right
RECURSIVE Victim(_, _)
Victim(th, i) ==
  IF i = th THEN NULL
  ELSE IF queue[i] # <<>> THEN i
  ELSE Victim(th, (i + 1) % num_threads)

next_task_from(th) ==
  IF queue[th] # <<>> THEN th ELSE Victim(th, (th + 1) % num_threads)

next_task(th) ==
  LET v == next_task_from(th)
  IN  IF v = NULL THEN NULL
      ELSE IF v = th THEN Head(queue[th])
      ELSE queue[v][Len(queue[v])]

QueueAfterNext(th) ==
  LET v == next_task_from(th)
  IN  IF v = NULL THEN queue
      ELSE IF v = th THEN [queue EXCEPT ![th] = taskqueue_pop(@)]
      ELSE [queue EXCEPT ![v] = taskqueue_popback(@)]

\* pthread_cond_broadcast(&task_avail_cond): threads inside wait_for_work
Broadcast(s) ==
  [th \in Threads |->
     IF s[th][Len(s[th])].pc = "sleep"
     THEN SubSeq(s[th], 1, Len(s[th]) - 1)
            \o <<[s[th][Len(s[th])] EXCEPT !.pc = "loop"]>>
     ELSE s[th]]

\* the loops that call next_task / handle_task, with their conditions
InLoop(th) ==
  LET f == Top(th)
  IN  \/ f.pc = "loop" /\ parallel
      \/ f.pc = "tc_loop" /\ num_children[Root] > 0
      \/ f.pc = "complete" /\ num_children[f.task] > 0
      \/ f.pc = "wait" /\ state[f.task] # "FINISHED"

(* ------------------------------ executor ------------------------------- *)
\* handle_task, first part: next_task returned t; current task saved, state
\* set to RUNNING under the task mutex, function called.  A destroyed record
\* has fn = NULL: the call is a null dereference.
RunTask(th) ==
  /\ ~crashed
  /\ InLoop(th)
  /\ next_task(th) # NULL
  /\ LET t == next_task(th)
         caller == IF Top(th).pc = "loop"
                   THEN [Top(th) EXCEPT !.pc = "check"] ELSE Top(th)
     IN  /\ mutex[t] = NoThread
         /\ queue' = QueueAfterNext(th)
         /\ current_task' = [current_task EXCEPT ![th] = t]
         /\ state' = [state EXCEPT ![t] = "RUNNING"]
         /\ crashed' = (state[t] = "DESTROYED")
         /\ invoked' = [invoked EXCEPT ![t] =
                          IF state[t] = "DESTROYED" THEN @ ELSE @ + 1]
         /\ stk' = PushOn(th, caller,
                     [F0 EXCEPT !.pc = "body", !.task = t,
                                !.prev = current_task[th]])
  /\ UNCHANGED <<ghostv, parent, num_children, unresolved_deps, phase, successor,
                 dangling, remote_successor, has_ref, mutex, depv,
                 defered_queue, memv, envv, cntv, enqueued, preds, drained,
                 phase_bound, poolv, handles>>

\* the task function returns; dart__tasking__task_complete of a non-root
\* task begins: broadcast, then the loop on num_children
BodyReturn(th) ==
  /\ ~crashed
  /\ Top(th).pc = "body"
  /\ stk' = Broadcast(SetTop(th, [Top(th) EXCEPT !.pc = "complete"]))
  /\ UNCHANGED <<ghostv, taskv, depv, quev, memv, envv, cntv, histv, phase_bound,
                 current_task, poolv, handles, crashed>>

\* release_remote_dependencies: one release message per staged record
ReleaseMsgs(rs) ==
  [j \in 1 .. Len(rs) |-> [kind |-> "release", to |-> rs[j].origin,
                            rtask |-> rs[j].rtask, local |-> NULL]]

\* handle_task after task_complete returned: lock, TEARDOWN,
\* release_local_task begins with release_remote_dependencies.  The frame
\* notes (i) whether task->successor is left over from an earlier release of
\* this record and (k) whether this release deallocated elements.
TeardownBegin(th) ==
  /\ ~crashed
  /\ Top(th).pc = "complete"
  /\ num_children[Top(th).task] <= 0
  /\ LET t == Top(th).task
     IN  /\ mutex[t] = NoThread
         /\ mutex' = [mutex EXCEPT ![t] = th]
         /\ state' = [state EXCEPT ![t] = "TEARDOWN"]
         /\ msgs' = msgs \o ReleaseMsgs(remote_successor[t])
         /\ remote_successor' = [remote_successor EXCEPT ![t] = <<>>]
         /\ stk' = SetTop(th, [Top(th) EXCEPT !.pc = "release", !.k = 0,
                                  !.i = IF dangling[t] THEN 1 ELSE 0])
  /\ UNCHANGED <<ghostv, parent, num_children, unresolved_deps, phase, successor,
                 dangling, has_ref, depv, quev, memv, owed, cntv, histv,
                 phase_bound, current_task, poolv, handles, crashed>>

\* one round of the loop of release_local_task: decrement the successor,
\* enqueue it at zero, deallocate the list element
ReleaseSuccessor(th) ==
  /\ ~crashed
  /\ Top(th).pc = "release"
  /\ successor[Top(th).task] # <<>>
  /\ LET t == Top(th).task
         s == Head(successor[t])
     IN  /\ unresolved_deps' = [unresolved_deps EXCEPT ![s] = @ - 1]
         /\ successor' = [successor EXCEPT ![t] = Tail(@)]
         /\ stk' = SetTop(th, [Top(th) EXCEPT !.k = 1])
         /\ IF unresolved_deps[s] - 1 = 0
            THEN enqueue_runnable(th, s) ELSE NoEnqueue
  /\ UNCHANGED <<ghostv, state, parent, num_children, phase, dangling,
                 remote_successor, has_ref, mutex, depv, memv, envv, cntv,
                 invoked, preds, drained, phase_bound, current_task, poolv,
                 handles, crashed>>

\* destroy_task: fields reset, state DESTROYED, record pushed on the
\* recycle list under task_recycle_mutex
destroy_task(t) ==
  /\ parent' = [parent EXCEPT ![t] = NULL]
  /\ phase' = [phase EXCEPT ![t] = 0]
  /\ remote_successor' = [remote_successor EXCEPT ![t] = <<>>]
  /\ successor' = [successor EXCEPT ![t] = <<>>]
  /\ dangling' = [dangling EXCEPT ![t] = FALSE]
  /\ state' = [state EXCEPT ![t] = "DESTROYED"]
  /\ has_ref' = [has_ref EXCEPT ![t] = FALSE]
  /\ task_recycle_mutex = NoThread
  /\ task_recycle_list' = <<t>> \o task_recycle_list

\* end of release_local_task: the list is walked; task->successor is not
\* reset and keeps pointing at the deallocated elements.  Walking such
\* elements again (second release of the record) dereferences their null
\* task pointer.  State FINISHED, mutex unlocked.
TeardownEnd(th) ==
  /\ ~crashed
  /\ Top(th).pc = "release"
  /\ successor[Top(th).task] = <<>>
  /\ LET t == Top(th).task
     IN  IF Top(th).i = 1
         THEN /\ crashed' = TRUE
              /\ UNCHANGED <<state, mutex, dangling, stk, fin>>
         ELSE /\ state' = [state EXCEPT ![t] = "FINISHED"]
              /\ fin' = [fin EXCEPT ![t] = @ + 1]
              /\ mutex' = [mutex EXCEPT ![t] = NoThread]
              /\ dangling' = [dangling EXCEPT ![t] = (Top(th).k = 1)]
              /\ stk' = SetTop(th, [Top(th) EXCEPT !.pc = "finished"])
              /\ UNCHANGED crashed
  /\ UNCHANGED <<born, nreturned, decl, seqno, href, ret, parent,
                 num_children, unresolved_deps, phase, successor,
                 remote_successor, has_ref, depv, quev, memv, envv, cntv,
                 histv, phase_bound, current_task, poolv, handles>>

\* DART_DEC_AND_FETCH32(&task->parent->num_children); parent is NULL once
\* the record was destroyed
DecParent(th) ==
  /\ ~crashed
  /\ Top(th).pc = "finished"
  /\ LET t == Top(th).task
     IN  IF parent[t] = NULL
         THEN /\ crashed' = TRUE
              /\ UNCHANGED <<num_children, stk>>
         ELSE /\ num_children' = [num_children EXCEPT ![parent[t]] = @ - 1]
              /\ stk' = SetTop(th, [Top(th) EXCEPT !.pc = "cleanup"])
              /\ UNCHANGED crashed
  /\ UNCHANGED <<ghostv, state, parent, unresolved_deps, phase, successor, dangling,
                 remote_successor, has_ref, mutex, depv, quev, memv, envv,
                 cntv, histv, phase_bound, current_task, poolv, handles>>

\* a handle_task that returns to the root task whatever ran before
SavedTaskRoot(th) == Root

\* the local variable current_task of handle_task: the current task of the
\* thread when the call began
SavedTask(th) == Top(th).prev

\* if (!task->has_ref) destroy_task(task); set_current_task(current_task)
Cleanup(th) ==
  /\ ~crashed
  /\ Top(th).pc = "cleanup"
  /\ LET t == Top(th).task
     IN  /\ IF ~has_ref[t]
            THEN destroy_task(t)
            ELSE UNCHANGED <<parent, phase, remote_successor, successor,
                             dangling, state, has_ref, task_recycle_list>>
         /\ current_task' = [current_task EXCEPT ![th] = SavedTask(th)]
         /\ stk' = Pop(th)
  /\ UNCHANGED <<ghostv, num_children, unresolved_deps, mutex, depv, quev,
                 task_free_list, task_recycle_mutex, envv, cntv, histv,
                 phase_bound, poolv, handles, crashed>>

(* ----------------------------- thread_main ----------------------------- *)
\* next_task found nothing: handle_task(NULL) does nothing
WorkerNoTask(th) ==
  /\ ~crashed
  /\ Top(th).pc = "loop" /\ parallel
  /\ next_task(th) = NULL
  /\ stk' = SetTop(th, [Top(th) EXCEPT !.pc = "check"])
  /\ UNCHANGED <<ghostv, taskv, depv, quev, memv, envv, cntv, histv, phase_bound,
                 current_task, poolv, handles, crashed>>

\* only go to sleep if no tasks are in flight; the last thread never sleeps
WorkerCheck(th) ==
  /\ ~crashed
  /\ Top(th).pc = "check"
  /\ stk' = SetTop(th, [Top(th) EXCEPT !.pc =
               IF num_children[Root] = 0 /\ th # num_threads - 1
               THEN "presleep" ELSE "loop"])
  /\ UNCHANGED <<ghostv, taskv, depv, quev, memv, envv, cntv, histv, phase_bound,
                 current_task, poolv, handles, crashed>>

\* wait_for_work: the thread is inside pthread_cond_wait
WorkerSleep(th) ==
  /\ ~crashed
  /\ Top(th).pc = "presleep"
  /\ stk' = SetTop(th, [Top(th) EXCEPT !.pc = "sleep"])
  /\ UNCHANGED <<ghostv, taskv, depv, quev, memv, envv, cntv, histv, phase_bound,
                 current_task, poolv, handles, crashed>>

\* while (parallel) fails
WorkerExit(th) ==
  /\ ~crashed
  /\ Top(th).pc = "loop" /\ ~parallel
  /\ stk' = SetTop(th, [Top(th) EXCEPT !.pc = "exit"])
  /\ UNCHANGED <<ghostv, taskv, depv, quev, memv, envv, cntv, histv, phase_bound,
                 current_task, poolv, handles, crashed>>

(* ----------------------------- create_task ----------------------------- *)
\* a declared dependency (dart_task_dep_t): type, region offset, owning
\* unit ("me" or "other"), task reference for DIRECT
Dep(type, addr) == [type |-> type, addr |-> addr, unit |-> "me", task |-> NULL]
RemoteDep(type, addr) ==
  [type |-> type, addr |-> addr, unit |-> "other", task |-> NULL]
DirectDep(t) == [type |-> "DIRECT", addr |-> 0, unit |-> "me", task |-> t]
IgnoreDep == [type |-> "IGNORE", addr |-> 0, unit |-> "me", task |-> NULL]

\* a record calloc can still deliver
FreshRecs == {r \in Recs : state[r] = "NONE"}
Fresh == CHOOSE r \in FreshRecs : \A q \in FreshRecs : r <= q

\* create_task after it has its record r, and the increment of the parent's
\* num_children in dart__tasking__create_task: the fields are set, the
\* frame of dart_tasking_datadeps_handle_task starts at the first
\* dependency on the stack below of thread th
InitRecord(th, r, deps, ref, below) ==
  LET p == current_task[th]
  IN  /\ num_children' = [num_children EXCEPT ![r] = 0, ![p] = @ + 1]
      /\ parent' = [parent EXCEPT ![r] = p]
      /\ state' = [state EXCEPT ![r] = "CREATED"]
      /\ phase' = [phase EXCEPT ![r] = phase[p]]
      /\ has_ref' = [has_ref EXCEPT ![r] = ref]
      /\ invoked' = [invoked EXCEPT ![r] = 0]
      /\ enqueued' = [enqueued EXCEPT ![r] = 0]
      /\ preds' = [preds EXCEPT ![r] = {}]
      /\ born' = [born EXCEPT ![r] = nreturned]
      /\ decl' = [decl EXCEPT ![r] = deps]
      /\ seqno' = [seqno EXCEPT ![r] = ncreated + 1]
      /\ fin' = [fin EXCEPT ![r] = 0]
      /\ href' = [href EXCEPT ![r] = ref]
      /\ ncreated' = ncreated + 1
      /\ stk' = [stk EXCEPT ![th] = below \o
                   <<[F0 EXCEPT
                       !.pc = IF deps = <<>> THEN "enq" ELSE "wire",
                       !.task = r, !.deps = deps, !.i = 1, !.k = 0 - 1,
                       !.ref = ref]>>]
      /\ UNCHANGED <<nreturned, ret, unresolved_deps, successor, dangling,
                     remote_successor, mutex, depv, quev, task_recycle_list,
                     envv, nphases, nremote, ncompletes, drained,
                     phase_bound, current_task, poolv, handles>>

\* create_task + the increment of the parent's num_children, the choice of
\* the record taken as one step: a record from the free list if there is
\* one, else a zeroed one
CreateBegin(th, deps, ref) ==
  /\ ~crashed
  /\ Top(th).pc \in {"main", "body"}
  /\ ncreated < MaxCreates
  /\ task_free_list # <<>> \/ FreshRecs # {}
  /\ task_recycle_mutex = NoThread
  /\ LET r == IF task_free_list # <<>> THEN Head(task_free_list) ELSE Fresh
     IN  /\ task_free_list' = IF task_free_list # <<>>
                              THEN Tail(task_free_list) ELSE task_free_list
         /\ InitRecord(th, r, deps, ref, stk[th])
  /\ UNCHANGED <<task_recycle_mutex, crashed>>

\* the next dependency of the loop in handle_task, or the end of the loop
Advance(f) ==
  IF f.i + 1 > Len(f.deps) THEN [f EXCEPT !.pc = "enq"]
  ELSE [f EXCEPT !.i = @ + 1, !.k = 0 - 1]

\* DART_DEP_IGNORE, and DART_DEP_DIRECT with a null task: nothing to do
WireSkip(th) ==
  /\ ~crashed
  /\ Top(th).pc = "wire"
  /\ LET dep == Top(th).deps[Top(th).i]
     IN  dep.type = "IGNORE" \/ (dep.type = "DIRECT" /\ dep.task = NULL)
  /\ stk' = SetTop(th, Advance(Top(th)))
  /\ UNCHANGED <<ghostv, taskv, depv, quev, memv, envv, cntv, histv, phase_bound,
                 current_task, poolv, handles, crashed>>

\* the test both branches of handle_task apply to the predecessor's state
NotFinished(p) == state[p] # "FINISHED"

\* DART_DEP_DIRECT: under the target's mutex, unless it is FINISHED, the
\* task is prepended to its successor list and unresolved_deps incremented
WireDirect(th) ==
  /\ ~crashed
  /\ Top(th).pc = "wire"
  /\ LET f == Top(th)
         dep == f.deps[f.i]
         r == f.task
     IN  /\ dep.type = "DIRECT" /\ dep.task # NULL
         /\ mutex[dep.task] = NoThread
         /\ IF NotFinished(dep.task)
            THEN /\ successor' = [successor EXCEPT ![dep.task] = <<r>> \o @]
                 /\ unresolved_deps' = [unresolved_deps EXCEPT ![r] = @ + 1]
                 /\ preds' = [preds EXCEPT ![r] = @ \cup {dep.task}]
            ELSE UNCHANGED <<successor, unresolved_deps, preds>>
         /\ stk' = SetTop(th, Advance(f))
  /\ UNCHANGED <<ghostv, state, parent, num_children, phase, dangling,
                 remote_successor, has_ref, mutex, depv, quev, memv, envv,
                 cntv, invoked, enqueued, drained, phase_bound, current_task,
                 poolv, handles, crashed>>

\* the conflict test of the bucket walk
Conflict(newtype, oldtype) ==
  IS_OUT_DEP(newtype) \/ (newtype = "IN" /\ IS_OUT_DEP(oldtype))

\* index of the first record of rem with the given address, 0 if none
FirstMatch(rem, addr) ==
  IF \E j \in 1 .. Len(rem) : rem[j].addr = addr
  THEN CHOOSE j \in 1 .. Len(rem) :
         /\ rem[j].addr = addr
         /\ \A q \in 1 .. (j - 1) : rem[q].addr # addr
  ELSE 0

\* the walk stops after a record with an OUT-like dependency
StopsAt(e) == IS_OUT_DEP(e.type)

\* dephash_add_local: new record at the head of the bucket, with the phase
\* of the task
dephash_add_local(dep, r) ==
  [local_deps EXCEPT ![hash_gptr(dep.addr)] =
     <<[task |-> r, type |-> dep.type, addr |-> dep.addr,
        phase |-> phase[r]]>> \o @]

\* local IN/OUT/INOUT dependency: one step per record with the same address
\* (lock its task, test, wire, unlock); the walk is not locked, so the frame
\* keeps the number of records still ahead (k).  After the last record, or
\* after an OUT-like one, the new record is added.
WireLocal(th) ==
  /\ ~crashed
  /\ Top(th).pc = "wire"
  /\ LET f == Top(th)
         dep == f.deps[f.i]
         r == f.task
         bucket == local_deps[hash_gptr(dep.addr)]
         rem == IF f.k = 0 - 1 THEN bucket ELSE Suffix(bucket, f.k)
         j == FirstMatch(rem, dep.addr)
     IN  /\ dep.type \in {"IN", "OUT", "INOUT"} /\ dep.unit = "me"
         /\ IF j = 0
            THEN /\ local_deps' = dephash_add_local(dep, r)
                 /\ stk' = SetTop(th, Advance(f))
                 /\ UNCHANGED <<successor, unresolved_deps, preds>>
            ELSE LET e == rem[j]
                 IN  /\ mutex[e.task] = NoThread
                     /\ IF NotFinished(e.task) /\ Conflict(dep.type, e.type)
                        THEN /\ unresolved_deps' =
                                  [unresolved_deps EXCEPT ![r] = @ + 1]
                             /\ successor' =
                                  [successor EXCEPT ![e.task] = <<r>> \o @]
                             /\ preds' = [preds EXCEPT ![r] = @ \cup {e.task}]
                        ELSE UNCHANGED <<successor, unresolved_deps, preds>>
                     /\ IF StopsAt(e)
                        THEN /\ local_deps' = dephash_add_local(dep, r)
                             /\ stk' = SetTop(th, Advance(f))
                        ELSE /\ stk' = SetTop(th, [f EXCEPT !.k = Len(rem) - j])
                             /\ UNCHANGED local_deps
  /\ UNCHANGED <<ghostv, state, parent, num_children, phase, dangling,
                 remote_successor, has_ref, mutex, unhandled_remote_deps,
                 deferred_remote_releases, quev, memv, envv, cntv, invoked,
                 enqueued, drained, phase_bound, current_task, poolv,
                 handles, crashed>>

\* dart_tasking_remote_datadep (transport layer): the request is sent to the
\* owner of the region and the task waits for its release
remote_datadep(dep, r) ==
  /\ msgs' = Append(msgs, [kind |-> "datadep", to |-> dep.unit,
                           rtask |-> NULL, local |-> r])
  /\ unresolved_deps' = [unresolved_deps EXCEPT ![r] = @ + 1]
  /\ owed' = [owed EXCEPT ![r] = @ + 1]

\* a test that takes every task for a child of the root task
IsAnyChild(r) == TRUE

\* task->parent->state == DART_TASK_ROOT
IsRootChild(r) == state[parent[r]] = "ROOT"

\* dependency on a region of another unit: forwarded only for children of
\* the root task, else ignored with a warning.  task->parent is NULL once
\* the record was destroyed.
WireRemote(th) ==
  /\ ~crashed
  /\ Top(th).pc = "wire"
  /\ LET f == Top(th)
         dep == f.deps[f.i]
         r == f.task
     IN  /\ dep.type \in {"IN", "OUT", "INOUT"} /\ dep.unit # "me"
         /\ IF parent[r] = NULL
            THEN /\ crashed' = TRUE
                 /\ UNCHANGED <<msgs, unresolved_deps, owed, stk>>
            ELSE /\ IF IsRootChild(r)
                    THEN remote_datadep(dep, r)
                    ELSE UNCHANGED <<msgs, unresolved_deps, owed>>
                 /\ stk' = SetTop(th, Advance(f))
                 /\ UNCHANGED crashed
  /\ UNCHANGED <<ghostv, state, parent, num_children, phase, successor,
                 dangling, remote_successor, has_ref, mutex, depv, quev, memv,
                 cntv, histv, phase_bound, current_task, poolv, handles>>

\* dart__tasking__create_task after handle_task returned:
\* if (task->unresolved_deps == 0) enqueue_runnable(task); a task created
\* by create_task_handle is also handed to the application
Runnable(r) == unresolved_deps[r] = 0

CreateEnd(th) ==
  /\ ~crashed
  /\ Top(th).pc = "enq"
  /\ LET r == Top(th).task
     IN  /\ IF Runnable(r) THEN enqueue_runnable(th, r) ELSE NoEnqueue
         /\ handles' = IF Top(th).ref THEN handles \cup {r} ELSE handles
  /\ stk' = Pop(th)
  /\ UNCHANGED <<ghostv, taskv, depv, memv, envv, cntv, invoked, preds, drained,
                 phase_bound, current_task, poolv, crashed>>

(* ------------------------ phase and task_wait -------------------------- *)
\* dart__tasking__phase on the master thread, at most max calls in one
\* behaviour: the transport is progressed
PhaseBounded(th, max) ==
  /\ ~crashed
  /\ th = Master /\ Top(th).pc = "main"
  /\ nphases < max
  /\ nphases' = nphases + 1
  /\ stk' = Push(th, [F0 EXCEPT !.pc = "phase"])
  /\ UNCHANGED <<ghostv, taskv, depv, quev, memv, envv, ncreated, nremote,
                 ncompletes, histv, phase_bound, current_task, poolv,
                 handles, crashed>>

PhaseBegin(th) == PhaseBounded(th, MaxPhase)

\* a phase() that counts twice
PhaseEndTwice(th) ==
  /\ ~crashed
  /\ Top(th).pc = "phase"
  /\ phase' = [phase EXCEPT ![Root] = @ + 2]
  /\ stk' = Pop(th)
  /\ UNCHANGED <<ghostv, state, parent, num_children, unresolved_deps,
                 successor, dangling, remote_successor, has_ref, mutex, depv,
                 quev, memv, envv, cntv, histv, phase_bound, current_task,
                 poolv, handles, crashed>>

\* root_task.phase++
PhaseEnd(th) ==
  /\ ~crashed
  /\ Top(th).pc = "phase"
  /\ phase' = [phase EXCEPT ![Root] = @ + 1]
  /\ stk' = Pop(th)
  /\ UNCHANGED <<ghostv, state, parent, num_children, unresolved_deps,
                 successor, dangling, remote_successor, has_ref, mutex, depv,
                 quev, memv, envv, cntv, histv, phase_bound, current_task,
                 poolv, handles, crashed>>

\* dart__tasking__task_wait with a valid reference: enter the loop
TaskWaitBegin(th, h) ==
  /\ ~crashed
  /\ Top(th).pc \in {"main", "body"}
  /\ h \in handles
  /\ state[h] # "DESTROYED"
  /\ stk' = Push(th, [F0 EXCEPT !.pc = "wait", !.task = h])
  /\ UNCHANGED <<ghostv, taskv, depv, quev, memv, envv, cntv, histv, phase_bound,
                 current_task, poolv, handles, crashed>>

\* the loop of task_wait ends: destroy_task(*tr); *tr = NULL
TaskWaitEnd(th) ==
  /\ ~crashed
  /\ Top(th).pc = "wait"
  /\ state[Top(th).task] = "FINISHED"
  /\ destroy_task(Top(th).task)
  /\ handles' = handles \ {Top(th).task}
  /\ stk' = Pop(th)
  /\ UNCHANGED <<ghostv, num_children, unresolved_deps, mutex, depv, quev,
                 task_free_list, task_recycle_mutex, envv, cntv, histv,
                 phase_bound, current_task, poolv, crashed>>

(* ------------------------ root task_complete --------------------------- *)
IS_ACTIVE_TASK(t) == state[t] \in {"RUNNING", "CREATED"}

\* dart__tasking__task_complete with the root task on the master thread:
\* dart_tasking_datadeps_release_unhandled_remote is entered
TaskCompleteRoot(th) ==
  /\ ~crashed
  /\ th = Master /\ Top(th).pc = "main"
  /\ ncompletes < MaxCompletes
  /\ ncompletes' = ncompletes + 1
  /\ stk' = Push(th, [F0 EXCEPT !.pc = "tc_begin"])
  /\ UNCHANGED <<ghostv, taskv, depv, quev, memv, envv, ncreated, nphases, nremote,
                 histv, phase_bound, current_task, poolv, handles,
                 crashed>>

\* the outer loop of release_unhandled_remote: next staged request, or the
\* end of the list (release_deferred_remote_releases follows)
RuNext(th) ==
  /\ ~crashed
  /\ Top(th).pc = "ru_next"
  /\ stk' = SetTop(th, [Top(th) EXCEPT
               !.pc = IF unhandled_remote_deps # <<>> THEN "ru_scan"
                      ELSE "drain",
               !.k = 0 - 1, !.cand = NULL, !.dcand = NULL, !.seen = {}])
  /\ UNCHANGED <<ghostv, taskv, depv, quev, memv, envv, cntv, histv, phase_bound,
                 current_task, poolv, handles, crashed>>

\* a fulfilment candidate chosen for the smallest phase
BetterCandidateMin(t, cand) == cand = NULL \/ phase[t] < phase[cand]

\* which of the two candidates a matching record's task becomes
IsDirectCandidate(t, rdep) == phase[t] >= rdep.phase
BetterDirect(t, dcand) == dcand = NULL \/ phase[dcand] > phase[t]
BetterCandidate(t, cand) == cand = NULL \/ phase[t] > phase[cand]

\* one record of the bucket of the request: its task is locked, classified
\* and unlocked again unless it becomes the fulfilment candidate, which
\* stays locked
RuScan(th) ==
  /\ ~crashed
  /\ Top(th).pc = "ru_scan"
  /\ LET f == Top(th)
         rdep == Head(unhandled_remote_deps)
         bucket == local_deps[hash_gptr(rdep.addr)]
         rem == IF f.k = 0 - 1 THEN bucket ELSE Suffix(bucket, f.k)
     IN  /\ rem # <<>>
         /\ LET e == Head(rem)
                t == e.task
            IN  /\ mutex[t] = NoThread
                /\ IF e.addr = rdep.addr /\ IS_OUT_DEP(e.type)
                      /\ IS_ACTIVE_TASK(t)
                   THEN IF IsDirectCandidate(t, rdep)
                        THEN /\ stk' = SetTop(th, [f EXCEPT
                                  !.k = Len(rem) - 1,
                                  !.seen = @ \cup {<<t, phase[t]>>},
                                  !.dcand = IF BetterDirect(t, f.dcand)
                                            THEN t ELSE @])
                             /\ UNCHANGED mutex
                        ELSE IF BetterCandidate(t, f.cand)
                        THEN /\ stk' = SetTop(th, [f EXCEPT
                                  !.k = Len(rem) - 1,
                                  !.seen = @ \cup {<<t, phase[t]>>},
                                  !.cand = t])
                             /\ mutex' = [u \in Tasks |->
                                  IF u = t THEN th
                                  ELSE IF u = f.cand THEN NoThread
                                  ELSE mutex[u]]
                        ELSE /\ stk' = SetTop(th, [f EXCEPT
                                  !.k = Len(rem) - 1,
                                  !.seen = @ \cup {<<t, phase[t]>>}])
                             /\ UNCHANGED mutex
                   ELSE /\ stk' = SetTop(th, [f EXCEPT !.k = Len(rem) - 1])
                        /\ UNCHANGED mutex
  /\ UNCHANGED <<ghostv, state, parent, num_children, unresolved_deps, phase,
                 successor, dangling, remote_successor, has_ref, depv, quev,
                 memv, envv, cntv, histv, phase_bound, current_task, poolv,
                 handles, crashed>>

\* dart_tasking_remote_direct_taskdep (transport layer): the origin of the
\* request is told that local task t waits for remote task rdep.rtask; from
\* now on the origin may answer with a release of t
remote_direct_taskdep(rdep, t) ==
  /\ msgs' = Append(msgs, [kind |-> "direct", to |-> rdep.origin,
                           rtask |-> rdep.rtask, local |-> t])
  /\ owed' = [owed EXCEPT ![t] = @ + 1]

\* end of the bucket; with a direct-dependency candidate the message is
\* sent first, the candidate's unresolved_deps incremented after it
RuDirect(th) ==
  /\ ~crashed
  /\ Top(th).pc = "ru_scan"
  /\ LET f == Top(th)
         rdep == Head(unhandled_remote_deps)
         bucket == local_deps[hash_gptr(rdep.addr)]
         rem == IF f.k = 0 - 1 THEN bucket ELSE Suffix(bucket, f.k)
     IN  /\ rem = <<>>
         /\ IF f.dcand # NULL
            THEN /\ remote_direct_taskdep(rdep, f.dcand)
                 /\ stk' = SetTop(th, [f EXCEPT !.pc = "ru_inc"])
            ELSE /\ stk' = SetTop(th, [f EXCEPT !.pc = "ru_commit"])
                 /\ UNCHANGED <<msgs, owed>>
  /\ UNCHANGED <<ghostv, taskv, depv, quev, memv, cntv, histv, phase_bound,
                 current_task, poolv, handles, crashed>>

\* DART_INC_AND_FETCH32(&direct_dep_candidate->unresolved_deps)
RuInc(th) ==
  /\ ~crashed
  /\ Top(th).pc = "ru_inc"
  /\ unresolved_deps' = [unresolved_deps EXCEPT ![Top(th).dcand] = @ + 1]
  /\ stk' = SetTop(th, [Top(th) EXCEPT !.pc = "ru_commit"])
  /\ UNCHANGED <<ghostv, state, parent, num_children, phase, successor, dangling,
                 remote_successor, has_ref, mutex, depv, quev, memv, envv,
                 cntv, histv, phase_bound, current_task, poolv, handles,
                 crashed>>

\* the request is attached to the fulfilment candidate, which is unlocked,
\* or released at once
RuCommit(th) ==
  /\ ~crashed
  /\ Top(th).pc = "ru_commit"
  /\ LET f == Top(th)
         rdep == Head(unhandled_remote_deps)
     IN  /\ IF f.cand # NULL
            THEN /\ remote_successor' =
                      [remote_successor EXCEPT ![f.cand] = <<rdep>> \o @]
                 /\ mutex' = [mutex EXCEPT ![f.cand] = NoThread]
                 /\ UNCHANGED msgs
            ELSE /\ msgs' = Append(msgs, [kind |-> "release",
                                          to |-> rdep.origin,
                                          rtask |-> rdep.rtask,
                                          local |-> NULL])
                 /\ UNCHANGED <<remote_successor, mutex>>
         /\ unhandled_remote_deps' = Tail(unhandled_remote_deps)
         /\ stk' = SetTop(th, [f EXCEPT !.pc = "ru_next"])
  /\ UNCHANGED <<ghostv, state, parent, num_children, unresolved_deps, phase,
                 successor, dangling, has_ref, local_deps,
                 deferred_remote_releases, quev, memv, owed, cntv, histv,
                 phase_bound, current_task, poolv, handles, crashed>>

\* release_deferred_remote_releases, one record of the list: decrement,
\* enqueue at zero, recycle the record.  The frame notes (k = 1) that
\* deferred_remote_mutex is held.
Drain(th) ==
  /\ ~crashed
  /\ Top(th).pc = "drain"
  /\ deferred_remote_releases # <<>>
  /\ LET t == Head(deferred_remote_releases)
     IN  /\ unresolved_deps' = [unresolved_deps EXCEPT ![t] = @ - 1]
         /\ IF unresolved_deps[t] - 1 = 0
            THEN enqueue_runnable(th, t) ELSE NoEnqueue
         /\ drained' = t
  /\ deferred_remote_releases' = Tail(deferred_remote_releases)
  /\ stk' = SetTop(th, [Top(th) EXCEPT !.k = 1])
  /\ UNCHANGED <<ghostv, state, parent, num_children, phase, successor, dangling,
                 remote_successor, has_ref, mutex, local_deps,
                 unhandled_remote_deps, memv, envv, cntv, invoked, preds,
                 phase_bound, current_task, poolv, handles, crashed>>

\* the list is empty: unlock, return to task_complete
DrainEnd(th) ==
  /\ ~crashed
  /\ Top(th).pc = "drain"
  /\ deferred_remote_releases = <<>>
  /\ stk' = SetTop(th, [Top(th) EXCEPT !.pc = "admit", !.k = 0])
  /\ UNCHANGED <<ghostv, taskv, depv, quev, memv, envv, cntv, histv, phase_bound,
                 current_task, poolv, handles, crashed>>

\* dart_tasking_taskqueue_move(dst, src): src prepended to dst
taskqueue_move(dst, src) == src \o dst

\* phase_bound = root phase; the master's deferred queue is moved to its
\* runnable queue; all sleeping threads are woken
Admit(th) ==
  /\ ~crashed
  /\ Top(th).pc = "admit"
  /\ phase_bound' = phase[current_task[th]]
  /\ queue' = [queue EXCEPT ![th] = taskqueue_move(@, defered_queue[th])]
  /\ defered_queue' = [defered_queue EXCEPT ![th] = <<>>]
  /\ stk' = Broadcast(SetTop(th, [Top(th) EXCEPT !.pc = "tc_loop"]))
  /\ UNCHANGED <<ghostv, taskv, depv, memv, envv, cntv, histv, current_task,
                 poolv, handles, crashed>>

\* the loop ended (no children left): dart_tasking_datadeps_reset, and the
\* recycle list becomes the free list
RootCleanup(th) ==
  /\ ~crashed
  /\ Top(th).pc = "tc_loop"
  /\ num_children[Root] <= 0
  /\ local_deps' = [s \in Slots |-> <<>>]
  /\ task_recycle_mutex = NoThread
  /\ task_free_list' = task_recycle_list
  /\ task_recycle_list' = <<>>
  /\ nreturned' = nreturned + 1
  /\ stk' = Pop(th)
  /\ UNCHANGED <<born, decl, seqno, fin, href, ret, taskv,
                 unhandled_remote_deps, deferred_remote_releases, quev,
                 task_recycle_mutex, envv, cntv, histv, phase_bound,
                 current_task, poolv, handles, crashed>>

(* ------------------- inbound messages (transport) ---------------------- *)
\* the places where a thread calls dart_tasking_remote_progress (or
\* progress_blocking, at the start of the root task_complete)
AtProgress(th) ==
  \/ Top(th).pc \in {"loop", "tc_loop", "complete", "wait", "tc_begin",
                     "phase"}
  \/ Top(th).pc = "check" /\ th = num_threads - 1 /\ num_children[Root] = 0

\* the thread inside release_unhandled_remote holds unhandled_remote_mutex
UnhandledLocked ==
  \E th \in Threads : Top(th).pc \in {"ru_next", "ru_scan", "ru_inc",
                                      "ru_commit"}

\* the thread inside release_deferred_remote_releases holds
\* deferred_remote_mutex
DeferredLocked == \E th \in Threads : Top(th).pc = "drain" /\ Top(th).k = 1

\* a staged record that does not carry the remote phase
StagedNoPhase(n, addr, ph) ==
  [rtask |-> n, addr |-> addr, origin |-> "other", phase |-> 0]

\* the record dart_tasking_datadeps_handle_remote_task stages for request
\* number n: remote task, region, origin id, remote phase
Staged(n, addr, ph) ==
  [rtask |-> n, addr |-> addr, origin |-> "other", phase |-> ph]

\* dart_tasking_datadeps_handle_remote_task: a request of another type than
\* IN is rejected before anything is allocated; an IN request is staged at
\* the head of the unhandled list under unhandled_remote_mutex
handle_remote_task(th, type, addr, ph) ==
  /\ ~crashed
  /\ AtProgress(th)
  /\ nremote' = nremote + 1
  /\ IF type # "IN"
     THEN /\ ret' = [fn |-> "handle_remote_task", arg |-> type,
                     num |-> ph, code |-> "DART_ERR_INVAL"]
          /\ UNCHANGED unhandled_remote_deps
     ELSE /\ ~UnhandledLocked
          /\ unhandled_remote_deps' =
               <<Staged(nremote + 1, addr, ph)>> \o unhandled_remote_deps
          /\ ret' = [fn |-> "handle_remote_task", arg |-> type,
                     num |-> ph, code |-> "DART_OK"]
  /\ UNCHANGED <<born, nreturned, decl, seqno, fin, href, taskv, local_deps,
                 deferred_remote_releases, quev, memv, envv, ncreated,
                 nphases, ncompletes, histv, phase_bound, current_task,
                 poolv, stk, handles, crashed>>

\* the test of release_remote_dep with the bound off by one: a release for
\* the next phase is applied at once
ParkReleaseLate(t) == phase[t] > phase_bound + 1

\* the test of release_remote_dep that parks a release
ParkRelease(t) == phase[t] > phase_bound

\* dart_tasking_datadeps_release_remote_dep: a remote participant releases
\* local task t; parked on the deferred list or applied at once
release_remote_dep(th, t) ==
  /\ ~crashed
  /\ AtProgress(th)
  /\ owed[t] > 0
  /\ ~DeferredLocked
  /\ owed' = [owed EXCEPT ![t] = @ - 1]
  /\ IF ParkRelease(t)
     THEN /\ deferred_remote_releases' = <<t>> \o deferred_remote_releases
          /\ UNCHANGED unresolved_deps
          /\ NoEnqueue
     ELSE /\ unresolved_deps' = [unresolved_deps EXCEPT ![t] = @ - 1]
          /\ IF unresolved_deps[t] - 1 = 0
             THEN enqueue_runnable(th, t) ELSE NoEnqueue
          /\ UNCHANGED deferred_remote_releases
  /\ UNCHANGED <<ghostv, state, parent, num_children, phase, successor, dangling,
                 remote_successor, has_ref, mutex, local_deps,
                 unhandled_remote_deps, memv, msgs, cntv, invoked, preds,
                 drained, phase_bound, current_task, poolv, stk, handles,
                 crashed>>

\* progress_blocking returned: release_unhandled_remote is called
TcEnter(th) ==
  /\ ~crashed
  /\ Top(th).pc = "tc_begin"
  /\ stk' = SetTop(th, [Top(th) EXCEPT !.pc = "ru_next"])
  /\ UNCHANGED <<ghostv, taskv, depv, quev, memv, envv, cntv, histv, phase_bound,
                 current_task, poolv, handles, crashed>>

(* --------------------------- specifications ---------------------------- *)
\* the steps of the executor and of thread_main
Execute(th) ==
  \/ RunTask(th)
  \/ BodyReturn(th)
  \/ TeardownBegin(th)
  \/ ReleaseSuccessor(th)
  \/ TeardownEnd(th)
  \/ DecParent(th)
  \/ Cleanup(th)
  \/ WorkerNoTask(th)
  \/ WorkerCheck(th)

\* the steps of dart_tasking_datadeps_handle_task and the end of create_task
Wire(th) ==
  \/ WireLocal(th)
  \/ CreateEnd(th)

\* the steps of the root task_complete without remote requests
CompleteRoot(th) ==
  \/ TaskCompleteRoot(th)
  \/ TcEnter(th)
  \/ RuNext(th)
  \/ DrainEnd(th)
  \/ Admit(th)
  \/ RootCleanup(th)

\* dependency lists the application passes to create_task
MenuLocal ==
  {<<Dep("OUT", AddrB)>>, <<Dep("OUT", AddrA)>>, <<Dep("IN", AddrA)>>,
   <<Dep("OUT", AddrB), Dep("OUT", AddrA)>>,
   <<Dep("IN", AddrB), Dep("IN", AddrA)>>}

\* the application on the master thread submits a task
Submit(Menu, Refs) ==
  /\ Top(Master).pc = "main"
  /\ \E deps \in Menu, ref \in Refs : CreateBegin(Master, deps, ref)

Next ==
  \/ Submit(MenuLocal, {FALSE})
  \/ \E th \in Threads :
    \/ Wire(th)
    \/ Execute(th)
    \/ CompleteRoot(th)

Spec == Init /\ [][Next]_vars

(* ------------------------------ claims --------------------------------- *)
\* r declared an OUT or INOUT (an IN) dependency on local region a
Writes(r, a) ==
  \E j \in 1 .. Len(decl[r]) :
    decl[r][j].addr = a /\ decl[r][j].unit = "me" /\ IS_OUT_DEP(decl[r][j].type)
Reads(r, a) ==
  \E j \in 1 .. Len(decl[r]) :
    decl[r][j].addr = a /\ decl[r][j].unit = "me" /\ decl[r][j].type = "IN"

\* r1 was submitted before r2 in the same epoch
Before(r1, r2) ==
  /\ r1 # r2
  /\ state[r1] # "NONE" /\ state[r2] # "NONE"
  /\ born[r1] = born[r2]
  /\ seqno[r1] < seqno[r2]

\* the function of r was called
Started(r) == invoked[r] >= 1

\* the function of r returned and its implicit barrier was passed: r left
\* RUNNING for TEARDOWN or a later state
Done(r) == fin[r] >= 1 \/ state[r] \in {"TEARDOWN", "FINISHED", "DESTROYED"}

\* C1: the function of every created task is invoked exactly once: never
\* twice, and never zero times once a root task_complete that began after
\* its creation has returned.
C1_InvokedExactlyOnce ==
  \A r \in Recs :
    /\ invoked[r] <= 1
    /\ (state[r] # "NONE" /\ born[r] < nreturned) => invoked[r] = 1

\* C2: enqueue_runnable is called at most once per created task.
C2_EnqueuedAtMostOnce == \A r \in Recs : enqueued[r] <= 1

\* C3: when S was entered in the successor list of P, S's function does not
\* begin before P is through (read in the claim's favour: P has at least
\* left RUNNING for TEARDOWN).
C3_SuccessorAfterPredecessor ==
  \A s \in Recs :
    (state[s] = "RUNNING" /\ Started(s)) => \A p \in preds[s] : Done(p)

\* C4: write after write: of two tasks of one epoch with an OUT-like
\* dependency on the same local region, the later one does not start before
\* the earlier one is through.
C4_WriteAfterWrite ==
  \A r1, r2 \in Recs : \A a \in Addrs :
    (Before(r1, r2) /\ Writes(r1, a) /\ Writes(r2, a) /\ Started(r2))
      => Done(r1)

\* C5: read after write: an IN task submitted after an OUT-like task on the
\* same local region does not start before the writer is through.
C5_ReadAfterWrite ==
  \A r1, r2 \in Recs : \A a \in Addrs :
    (Before(r1, r2) /\ Writes(r1, a) /\ Reads(r2, a) /\ Started(r2))
      => Done(r1)

\* C6: write after read: an OUT-like task submitted after an IN task on the
\* same local region does not start before that reader is through.
C6_WriteAfterRead ==
  \A r1, r2 \in Recs : \A a \in Addrs :
    (Before(r1, r2) /\ Reads(r1, a) /\ Writes(r2, a) /\ Started(r2))
      => Done(r1)

\* the order of the task states
Rank(st) ==
  CASE st = "NONE" -> 0
    [] st = "CREATED" -> 1
    [] st = "RUNNING" -> 2
    [] st = "TEARDOWN" -> 3
    [] st = "FINISHED" -> 4
    [] st = "DESTROYED" -> 5
    [] st = "ROOT" -> 6

\* C8: no step takes a task from a later state back to an earlier one,
\* except the re-creation of a destroyed record; the root stays ROOT.
C8_StateMonotone ==
  [][\A t \in Tasks :
       \/ Rank(state'[t]) >= Rank(state[t])
       \/ state[t] = "DESTROYED" /\ state'[t] = "CREATED"]_vars

(* ------------------- remote requests: specification ------------------- *)
\* the steps of the root task_complete with staged remote requests
CompleteRootRemote(th) ==
  \/ CompleteRoot(th)
  \/ RuScan(th)
  \/ RuDirect(th)
  \/ RuInc(th)
  \/ RuCommit(th)

\* what the transport delivers while a thread progresses it: requests of
\* remote tasks and releases of local ones
Inbound(th) ==
  \/ /\ nremote < MaxRemote
     /\ \E ph \in 0 .. MaxPhase : handle_remote_task(th, "IN", AddrA, ph)
  \/ \E t \in Recs : release_remote_dep(th, t)

\* writers of the region the remote tasks read
MenuOut == {<<Dep("OUT", AddrA)>>}

NextRemote ==
  \/ Submit(MenuOut, {FALSE})
  \/ \E th \in Threads :
    \/ Wire(th)
    \/ Execute(th)
    \/ CompleteRootRemote(th)
    \/ Inbound(th)

SpecRemote == Init /\ [][NextRemote]_vars

(* ------------------ phases and epochs: specification ------------------- *)
\* dart__tasking__phase
Phase(th) ==
  \/ PhaseBegin(th)
  \/ PhaseEnd(th)

NextEpochs ==
  \/ Submit(MenuOut, {FALSE})
  \/ \E th \in Threads :
    \/ Wire(th)
    \/ Execute(th)
    \/ Phase(th)
    \/ CompleteRoot(th)

SpecEpochs == Init /\ [][NextEpochs]_vars

(* ------------- phases and remote releases: specification --------------- *)
\* the steps of dart_tasking_datadeps_handle_task with remote dependencies
WireAny(th) ==
  \/ Wire(th)
  \/ WireRemote(th)

\* the steps of the root task_complete with parked releases
CompleteRootPhase(th) ==
  \/ CompleteRoot(th)
  \/ Drain(th)

\* the transport delivers releases of local tasks
Released(th) == \E t \in Recs : release_remote_dep(th, t)

\* dependency lists with a region of another unit
MenuRemote == {<<Dep("OUT", AddrA)>>, <<RemoteDep("IN", AddrA)>>}

NextPhase ==
  \/ Submit(MenuRemote, {FALSE})
  \/ \E th \in Threads :
    \/ WireAny(th)
    \/ Execute(th)
    \/ Phase(th)
    \/ CompleteRootPhase(th)
    \/ Released(th)

SpecPhase == Init /\ [][NextPhase]_vars

C9_PhaseBoundRespected ==
  /\ \A th \in Threads : \A j \in 1 .. Len(queue[th]) :
       phase[queue[th][j]] <= phase_bound
  /\ \A t \in Recs : state[t] = "RUNNING" => phase[t] <= phase_bound

\* a step of release_deferred_remote_releases: the head of the deferred
\* list is taken off (release_remote_dep only ever prepends)
DrainStep ==
  /\ deferred_remote_releases # <<>>
  /\ deferred_remote_releases' = Tail(deferred_remote_releases)

\* a step of release_remote_dep that decrements t at once
ImmediateRelease(t) ==
  /\ owed'[t] < owed[t]
  /\ unresolved_deps'[t] < unresolved_deps[t]

\* C10 as stated: a parked release decrements its task only once
\* phase_bound has reached the phase of the task.
C10_DrainAfterBound ==
  [][DrainStep =>
       phase[Head(deferred_remote_releases)] <= phase_bound]_vars

\* C10 amended: a parked release is applied by the master inside the root
\* task_complete, before phase_bound is raised: the phase of the task is then
\* at most the phase of the root task, which phase_bound takes next, and a
\* task still beyond phase_bound does not enter a runnable queue by it;
\* release_remote_dep itself never decrements a task beyond phase_bound.
C10_DrainBeforeAdmit ==
  [][/\ DrainStep =>
          LET t == Head(deferred_remote_releases)
          IN  /\ Top(Master).pc = "drain"
              /\ unresolved_deps'[t] = unresolved_deps[t] - 1
              /\ phase[t] <= phase[Root]
              /\ phase[t] > phase_bound => queue' = queue
     /\ \A t \in Recs : ImmediateRelease(t) => phase[t] <= phase_bound]_vars

\* a parked release was applied while phase_bound was still behind, and the
\* task it released waits in the master's deferred queue
C10_Witness ==
  /\ drained # NULL
  /\ phase[drained] > phase_bound
  /\ unresolved_deps[drained] = 0
  /\ \E j \in 1 .. Len(defered_queue[Master]) :
       defered_queue[Master][j] = drained

(* --------------------- root task_complete: claims ---------------------- *)
\* a step in which a root task_complete returns
RootReturns == nreturned' > nreturned

\* C11: when task_complete on the root task returns on the master thread,
\* the root has no children left and every task record is FINISHED or
\* DESTROYED (or was never allocated).
C11_CompleteDrains ==
  [][RootReturns =>
       /\ num_children[Root] = 0
       /\ \A r \in Recs : state[r] \in {"NONE", "FINISHED", "DESTROYED"}]_vars

(* ------------------- progress: specification and claim ------------------ *)
\* the steps thread th takes by itself once the application has made its
\* calls: wiring and the end of create_task, the executor and thread_main,
\* the body of the root task_complete
Step(th) ==
  \/ Wire(th)
  \/ Execute(th)
  \/ TcEnter(th)
  \/ RuNext(th)
  \/ DrainEnd(th)
  \/ Admit(th)
  \/ RootCleanup(th)

\* the application submits tasks and calls task_complete when it likes; the
\* threads of the pool are scheduled fairly
NextLive ==
  \/ Submit(MenuOut, {FALSE})
  \/ TaskCompleteRoot(Master)
  \/ \E th \in Threads : Step(th)

SpecLive ==
  Init /\ [][NextLive]_vars /\ \A th \in Pool : WF_vars(Step(th))

\* the master is inside a root task_complete
InRootComplete == ncompletes > nreturned

\* C12: with local dependencies only and task functions that return, every
\* task that exists when a root task_complete is running is eventually
\* executed, and every root task_complete eventually returns.
C12_Progress ==
  /\ \A n \in 1 .. MaxCompletes : (ncompletes = n) ~> (nreturned >= n)
  /\ \A r \in Recs :
       (InRootComplete /\ state[r] = "CREATED") ~> (invoked[r] >= 1)

(* ------------------------ deferred queues: claim ----------------------- *)
\* the step of the root task_complete that raises phase_bound and splices
\* the deferred queue
AdmitStep == Top(Master).pc = "admit" /\ stk'[Master] # stk[Master]

\* C13: after the splice of a root task_complete no deferred queue of any
\* thread holds a task whose phase phase_bound has reached.
C13_DeferredSpliced ==
  [][AdmitStep =>
       \A th \in Threads : \A j \in 1 .. Len(defered_queue'[th]) :
         phase'[defered_queue'[th][j]] > phase_bound']_vars

(* ---------------- nested tasks: specification and claim ---------------- *)
\* a task without dependencies
MenuNone == {<<>>}

\* dependency lists of the tasks a task function creates
MenuNested == {<<Dep("IN", AddrA)>>, <<Dep("OUT", AddrA)>>}

\* a running task function calls create_task
Spawn(th) ==
  /\ Top(th).pc = "body"
  /\ \E deps \in MenuNested : CreateBegin(th, deps, FALSE)

NextNested ==
  \/ Submit(MenuNone, {FALSE})
  \/ \E th \in Threads :
    \/ Spawn(th)
    \/ Wire(th)
    \/ Execute(th)
    \/ CompleteRoot(th)

SpecNested == Init /\ [][NextNested]_vars

\* the step of handle_task that decrements the parent's num_children
DecParentStep(th) == Top(th).pc = "finished" /\ stk'[th] # stk[th]

\* C14: a task in state TEARDOWN or FINISHED has no children left, and the
\* parent's num_children is decremented for a task only when the state of
\* that task is FINISHED.
C14_ImplicitBarrier ==
  [][/\ \A r \in Recs :
          state'[r] \in {"TEARDOWN", "FINISHED"} => num_children'[r] = 0
     /\ \A th \in Threads :
          DecParentStep(th) => state[Top(th).task] = "FINISHED"]_vars

(* ------------- handles and invalid calls: specification ---------------- *)
\* a null dart_taskref_t* passed to task_wait
NullPtr == 0 - 2

\* the test of dart__tasking__phase and of the root task_complete for the
\* calling thread
NotMaster(th) == th # Master

\* dart__tasking__phase on a worker that counts the phase before it tests
\* the calling thread
PhaseInvalCounts(th) ==
  /\ ~crashed
  /\ Top(th).pc = "body"
  /\ NotMaster(th)
  /\ ret' = [fn |-> "phase", arg |-> "worker", num |-> 0, code |-> "DART_ERR_INVAL"]
  /\ phase' = [phase EXCEPT ![Root] = @ + 1]
  /\ UNCHANGED <<born, nreturned, decl, seqno, fin, href, state, parent,
                 num_children, unresolved_deps, successor, dangling,
                 remote_successor, has_ref, mutex, depv, quev, memv, envv,
                 cntv, histv, phase_bound, current_task, poolv, stk,
                 handles, crashed>>

\* dart__tasking__phase called by a task function on a worker thread:
\* DART_ERR_INVAL before anything is touched
PhaseInval(th) ==
  /\ ~crashed
  /\ Top(th).pc = "body"
  /\ NotMaster(th)
  /\ ret' = [fn |-> "phase", arg |-> "worker", num |-> 0, code |-> "DART_ERR_INVAL"]
  /\ UNCHANGED <<born, nreturned, decl, seqno, fin, href, taskv, depv, quev,
                 memv, envv, cntv, histv, phase_bound, current_task,
                 poolv, stk, handles, crashed>>

\* dart__tasking__task_complete called on a worker thread whose current
\* task is the root task, i.e. outside any task function (at the top of the
\* loop of thread_main): DART_ERR_INVAL before anything is touched
TaskCompleteInval(th) ==
  /\ ~crashed
  /\ Top(th).pc = "loop"
  /\ current_task[th] = Root /\ NotMaster(th)
  /\ ret' = [fn |-> "task_complete", arg |-> "worker",
             num |-> 0, code |-> "DART_ERR_INVAL"]
  /\ UNCHANGED <<born, nreturned, decl, seqno, fin, href, taskv, depv, quev,
                 memv, envv, cntv, histv, phase_bound, current_task,
                 poolv, stk, handles, crashed>>

\* the test of dart__tasking__task_wait on its argument
InvalidRef(tr) ==
  IF tr = NullPtr \/ tr = NULL THEN TRUE ELSE state[tr] = "DESTROYED"

\* how the argument of task_wait is invalid
RefKind(tr) ==
  IF tr = NullPtr THEN "null pointer"
  ELSE IF tr = NULL THEN "null handle" ELSE "destroyed"

\* copies of handles the application kept after task_wait nulled the
\* original, as long as the record is DESTROYED
StaleRefs == {r \in Recs : href[r] /\ r \notin handles /\ state[r] = "DESTROYED"}

\* task_wait that rejects an invalid argument but forgets the handle
TaskWaitInvalDrops(th, tr) ==
  /\ ~crashed
  /\ Top(th).pc \in {"main", "body"}
  /\ InvalidRef(tr)
  /\ ret' = [fn |-> "task_wait", arg |-> RefKind(tr),
             num |-> 0, code |-> "DART_ERR_INVAL"]
  /\ handles' = {}
  /\ UNCHANGED <<born, nreturned, decl, seqno, fin, href, taskv, depv, quev,
                 memv, envv, cntv, histv, phase_bound, current_task,
                 poolv, stk, crashed>>

\* dart__tasking__task_wait with an invalid argument: DART_ERR_INVAL, no
\* task is executed, nothing destroyed, the handle left as it is
TaskWaitInval(th, tr) ==
  /\ ~crashed
  /\ Top(th).pc \in {"main", "body"}
  /\ InvalidRef(tr)
  /\ ret' = [fn |-> "task_wait", arg |-> RefKind(tr),
             num |-> 0, code |-> "DART_ERR_INVAL"]
  /\ UNCHANGED <<born, nreturned, decl, seqno, fin, href, taskv, depv, quev,
                 memv, envv, cntv, histv, phase_bound, current_task,
                 poolv, stk, handles, crashed>>

\* the application on the master thread waits for a task it holds a handle
\* of
WaitValid ==
  /\ Top(Master).pc = "main"
  /\ \E h \in Recs : TaskWaitBegin(Master, h)

\* the application on the master thread calls task_wait with an invalid
\* argument
WaitInvalid ==
  /\ Top(Master).pc = "main"
  /\ \E tr \in {NullPtr, NULL} \cup StaleRefs : TaskWaitInval(Master, tr)

\* calls a worker thread may not make
Misuse(th) ==
  \/ PhaseInval(th)
  \/ TaskCompleteInval(th)

\* tasks with and without handles, task_wait and the root task_complete
NextUsage ==
  \/ Submit(MenuOut, {TRUE, FALSE})
  \/ WaitValid
  \/ \E th \in Threads :
    \/ Wire(th)
    \/ Execute(th)
    \/ TaskWaitEnd(th)
    \/ CompleteRoot(th)

SpecUsage == Init /\ [][NextUsage]_vars

\* tasks with handles, task_wait, and the calls that are rejected
NextInval ==
  \/ Submit(MenuOut, {TRUE})
  \/ WaitValid
  \/ WaitInvalid
  \/ \E th \in Threads :
    \/ Wire(th)
    \/ Execute(th)
    \/ TaskWaitEnd(th)
    \/ Misuse(th)

SpecInval == Init /\ [][NextInval]_vars

\* the step of handle_task that destroys the task unless it has a handle
CleanupStep(th) == Top(th).pc = "cleanup" /\ stk'[th] # stk[th]

\* C15: task_wait nulls a handle only after the task reached FINISHED and
\* leaves the task DESTROYED; the executor never destroys a task created by
\* create_task_handle.
C15_WaitDestroys ==
  [][/\ \A t \in Recs :
          (t \in handles /\ t \notin handles')
            => (fin[t] >= 1 /\ state'[t] = "DESTROYED")
     /\ \A th \in Threads :
          (CleanupStep(th) /\ href[Top(th).task])
            => task_recycle_list' = task_recycle_list]_vars

\* a call of function fn returned DART_ERR_INVAL in this step
Rejected(fn) ==
  /\ ret' # ret
  /\ ret'.fn = fn
  /\ ret'.code = "DART_ERR_INVAL"

\* C16: phase() and the root task_complete called on a thread other than
\* the master return DART_ERR_INVAL and leave the phase counter, phase_bound,
\* the queues, the dependency hash and the staging lists as they were.
C16_NonMasterRejected ==
  [][(Rejected("phase") \/ Rejected("task_complete"))
       => UNCHANGED <<phase, phase_bound, queue, defered_queue, local_deps,
                      unhandled_remote_deps, deferred_remote_releases,
                      state, num_children, stk>>]_vars

\* both calls were rejected on a worker thread, one of them while tasks
\* were queued or running
C16_Witness ==
  /\ ret.fn \in {"phase", "task_complete"}
  /\ ret.code = "DART_ERR_INVAL"
  /\ \E r \in Recs : state[r] = "RUNNING"

\* C17: task_wait with a null pointer, a null handle or a handle of a
\* DESTROYED task returns DART_ERR_INVAL without executing a task, without
\* destroying anything and without changing any handle.
C17_InvalidWaitRejected ==
  [][Rejected("task_wait")
       => UNCHANGED <<state, invoked, task_recycle_list, task_free_list,
                      handles, queue, defered_queue, stk>>]_vars

\* task_wait rejected the handle of a destroyed task while another handle
\* was still valid
C17_Witness ==
  /\ ret = [fn |-> "task_wait", arg |-> "destroyed", num |-> 0,
            code |-> "DART_ERR_INVAL"]
  /\ handles # {}

(* --------------------------- record reuse: claim ----------------------- *)
\* create_task hands out record r in this step
HandedOut(r) == ncreated' > ncreated /\ seqno'[r] = ncreated'

\* r is referenced from a bucket of the dependency hash or from a successor
\* list
Referenced(r) ==
  \/ \E s \in Slots : \E j \in 1 .. Len(local_deps[s]) :
       local_deps[s][j].task = r
  \/ \E t \in Tasks : \E j \in 1 .. Len(successor[t]) : successor[t][j] = r

\* r is on the recycle list: destroyed since the last root task_complete
\* returned
Recycling(r) ==
  \E j \in 1 .. Len(task_recycle_list) : task_recycle_list[j] = r

\* C20: the record create_task hands out is not a live task, was not
\* destroyed in the current work epoch and is not referenced from a hash
\* bucket or a successor list.
C20_NoReuseInEpoch ==
  [][\A r \in Recs :
       HandedOut(r) =>
         /\ state[r] \in {"NONE", "DESTROYED"}
         /\ ~Recycling(r)
         /\ ~Referenced(r)]_vars

(* ----------- the scheduler without tasks: specification ---------------- *)
\* the values of dart_task_dep_type_t
DepTypes == {"IN", "OUT", "INOUT", "DIRECT", "IGNORE"}

\* the transport delivers a request of any type
Incoming(th) ==
  /\ nremote < MaxInbound
  /\ \E type \in DepTypes, ph \in 0 .. MaxIdlePhases :
       handle_remote_task(th, type, AddrA, ph)

\* no task is created: phase() and the root task_complete on the master,
\* the idle loop of the workers, requests from other units
NextIdle ==
  \/ PhaseBounded(Master, MaxIdlePhases)
  \/ PhaseEnd(Master)
  \/ \E th \in Threads :
    \/ WorkerNoTask(th)
    \/ WorkerCheck(th)
    \/ TaskCompleteRoot(th)
    \/ TcEnter(th)
    \/ RuNext(th)
    \/ RuDirect(th)
    \/ RuCommit(th)
    \/ DrainEnd(th)
    \/ Admit(th)
    \/ RootCleanup(th)
    \/ Incoming(th)

SpecIdle == Init /\ [][NextIdle]_vars

\* a call of handle_remote_task happens in this step
RemoteRequest == nremote' > nremote

C19_PhasesCounted ==
  [][(RootReturns /\ ncreated = 0) =>
       /\ \A s \in Slots : local_deps'[s] = <<>>
       /\ phase'[Root] = nphases'
       /\ phase_bound' = phase'[Root]]_vars

\* three calls of phase() and then a root task_complete that returned
C19_Witness ==
  /\ ncreated = 0
  /\ nreturned >= 1
  /\ nphases = MaxIdlePhases
  /\ phase[Root] = MaxIdlePhases
  /\ phase_bound = MaxIdlePhases
  /\ Top(Master).pc = "main"

(* ------------------------------ phases: claim -------------------------- *)
\* the task of record r exists and was not destroyed
Alive(r) == state[r] \in {"CREATED", "RUNNING", "TEARDOWN", "FINISHED"}

\* C21: the phase counter of the root task changes only by +1 and only in
\* phase() on the master thread; a task is created with the phase of its
\* parent and keeps it while it is alive; phase_bound never decreases and
\* never exceeds the phase counter.
C21_PhasesMonotone ==
  [][/\ phase'[Root] # phase[Root] =>
          /\ phase'[Root] = phase[Root] + 1
          /\ Top(Master).pc = "phase"
          /\ stk'[Master] = Below(Master)
     /\ \A r \in Recs :
          /\ HandedOut(r) => phase'[r] = phase[parent'[r]]
          /\ (Alive(r) /\ state'[r] # "DESTROYED") => phase'[r] = phase[r]
     /\ phase_bound' >= phase_bound
     /\ phase_bound' <= phase'[Root]]_vars

(* ------- regions of other units in nested tasks: specification --------- *)
\* dependency lists with a region of another unit only
MenuForeign == {<<RemoteDep("IN", AddrA)>>, <<RemoteDep("OUT", AddrA)>>}

\* a running task function creates a task that names a region of another
\* unit
SpawnForeign(th) ==
  /\ Top(th).pc = "body"
  /\ \E deps \in MenuForeign : CreateBegin(th, deps, FALSE)

NextForeign ==
  \/ Submit(MenuNone \cup {<<RemoteDep("IN", AddrA)>>}, {FALSE})
  \/ \E th \in Threads :
    \/ SpawnForeign(th)
    \/ WireAny(th)
    \/ Execute(th)
    \/ CompleteRoot(th)
    \/ Released(th)

SpecForeign == Init /\ [][NextForeign]_vars

\* handle_task of thread th passes a dependency on a region of another unit
\* in this step
ForeignStep(th) ==
  /\ Top(th).pc = "wire"
  /\ Top(th).deps[Top(th).i].unit # "me"
  /\ stk'[th] # stk[th]

\* create_task of thread th returns in this step
CreateEndStep(th) == Top(th).pc = "enq" /\ stk'[th] # stk[th]

\* C22 (the creating thread executes current_task[th], the parent of the new
\* task): a dependency of a task whose parent is not the root task on a
\* region of another unit is dropped: no message is sent, unresolved_deps is
\* not incremented and no record is added to the hash, and the task is
\* enqueued when create_task returns; requests are sent only for children
\* of the root task.
C22_NestedRemoteDropped ==
  [][\A th \in Threads :
       /\ (ForeignStep(th) /\ current_task[th] # Root) =>
            UNCHANGED <<msgs, unresolved_deps, local_deps, owed>>
       /\ (ForeignStep(th) /\ current_task[th] = Root) =>
            /\ Len(msgs') = Len(msgs) + 1
            /\ msgs'[Len(msgs')].kind = "datadep"
            /\ msgs'[Len(msgs')].local = Top(th).task
       /\ (CreateEndStep(th) /\ current_task[th] # Root) =>
            /\ unresolved_deps[Top(th).task] = 0
            /\ enqueued'[Top(th).task] = enqueued[Top(th).task] + 1]_vars

\* a nested task with a dependency on a region of another unit was executed
\* and nothing was sent
C22_Witness ==
  \E r \in Recs :
    /\ parent[r] \in Recs
    /\ Len(decl[r]) = 1 /\ decl[r][1].unit = "other"
    /\ invoked[r] >= 1
    /\ msgs = <<>>

(* ----------------------- shutdown: specification ----------------------- *)
\* dart__tasking__fini: parallel = false
FiniBegin(th) ==
  /\ ~crashed
  /\ th = Master /\ Top(th).pc = "main"
  /\ initialized
  /\ parallel' = FALSE
  /\ stk' = Push(th, [F0 EXCEPT !.pc = "fini_wake"])
  /\ UNCHANGED <<ghostv, taskv, depv, quev, memv, envv, cntv, histv,
                 phase_bound, current_task, num_threads, initialized,
                 handles, crashed>>

\* pthread_cond_broadcast(&task_avail_cond): the threads inside
\* pthread_cond_wait are woken, then the loop of joins starts with thread 1
FiniWake(th) ==
  /\ ~crashed
  /\ Top(th).pc = "fini_wake"
  /\ stk' = [Broadcast(stk) EXCEPT ![th] =
               Below(th) \o <<[Top(th) EXCEPT !.pc = "join", !.i = 1]>>]
  /\ UNCHANGED <<ghostv, taskv, depv, quev, memv, envv, cntv, histv,
                 phase_bound, current_task, poolv, handles, crashed>>

\* pthread_join returns once thread_main of the thread returned; then
\* dart_thread_finalize
FiniJoin(th) ==
  /\ ~crashed
  /\ Top(th).pc = "join"
  /\ Top(th).i < num_threads
  /\ Top(Top(th).i).pc = "exit"
  /\ current_task' = [current_task EXCEPT ![Top(th).i] = NULL]
  /\ stk' = SetTop(th, [Top(th) EXCEPT !.i = @ + 1])
  /\ UNCHANGED <<ghostv, taskv, depv, quev, memv, envv, cntv, histv,
                 phase_bound, poolv, handles, crashed>>

\* all threads joined: the recycle list is freed, initialized = false, and
\* fini returns
FiniEnd(th) ==
  /\ ~crashed
  /\ Top(th).pc = "join"
  /\ Top(th).i >= num_threads
  /\ task_recycle_list' = <<>>
  /\ initialized' = FALSE
  /\ stk' = [stk EXCEPT ![th] = <<[F0 EXCEPT !.pc = "down"]>>]
  /\ ret' = [fn |-> "fini", arg |-> "none", num |-> 0, code |-> "DART_OK"]
  /\ UNCHANGED <<born, nreturned, decl, seqno, fin, href, taskv, depv, quev,
                 task_free_list, task_recycle_mutex, envv, cntv, histv,
                 phase_bound, current_task, parallel, num_threads, handles,
                 crashed>>

\* what a thread does without a call of the application: the idle loop of
\* thread_main with wait_for_work and the exit, the steps inside fini,
\* phase() and the root task_complete
Runs(th) ==
  \/ WorkerNoTask(th)
  \/ WorkerCheck(th)
  \/ WorkerSleep(th)
  \/ WorkerExit(th)
  \/ FiniWake(th)
  \/ FiniJoin(th)
  \/ FiniEnd(th)
  \/ PhaseEnd(th)
  \/ CompleteRoot(th) /\ Top(th).pc # "main"

\* a pool of three threads without tasks: phase(), the root task_complete
\* and fini() on the master, thread_main on the workers
NextFini ==
  \/ PhaseBounded(Master, MaxIdlePhases)
  \/ TaskCompleteRoot(Master)
  \/ FiniBegin(Master)
  \/ \E th \in Threads : Runs(th)

InitFini == InitPool(NumThreads + 1)

SpecFini ==
  /\ InitFini
  /\ [][NextFini]_vars
  /\ \A th \in 0 .. NumThreads : WF_vars(Runs(th))

\* C23: once fini has cleared the parallel flag, every worker eventually
\* leaves its loop and fini returns.
C23_FiniReturns ==
  (~parallel) ~>
     /\ \A th \in Threads : th # Master => Top(th).pc = "exit"
     /\ Top(Master).pc = "down"

\* tasks with local dependencies, the root task_complete and fini() on the
\* master
NextShutdown ==
  \/ Submit(MenuOut, {FALSE})
  \/ FiniBegin(Master)
  \/ \E th \in Threads :
    \/ Wire(th)
    \/ Execute(th)
    \/ CompleteRoot(th)
    \/ WorkerExit(th)
    \/ FiniWake(th)
    \/ FiniJoin(th)
    \/ FiniEnd(th)

SpecShutdown == Init /\ [][NextShutdown]_vars

\* dart__tasking__fini has returned DART_OK
FiniReturned == Top(Master).pc = "down"

\* C24: when fini has returned, every task that was created is FINISHED or
\* DESTROYED and no runnable or deferred queue holds a task.
C24_AllDoneAtShutdown ==
  FiniReturned =>
    /\ \A r \in Recs : state[r] \in {"NONE", "FINISHED", "DESTROYED"}
    /\ \A th \in Threads : queue[th] = <<>> /\ defered_queue[th] = <<>>

(* -------------------------- task queue: claim -------------------------- *)
\* next_task hands record t to handle_task of thread th in this step
Popped(th, t) ==
  /\ Len(stk'[th]) = Len(stk[th]) + 1
  /\ stk'[th][Len(stk'[th])].pc = "body"
  /\ stk'[th][Len(stk'[th])].task = t

\* enqueue_runnable puts record t in a runnable queue in this step
Pushed(t) == enqueued'[t] > enqueued[t] /\ queue' # queue

\* thread th takes the step
Acts(th) == stk'[th] # stk[th]

\* thread th takes a step of the loop of release_local_task
Releasing(th) ==
  /\ Top(th).pc = "release"
  /\ successor'[Top(th).task] # successor[Top(th).task]

\* C25: a thread pushes and pops at the head of its own queue and steals
\* only the last task of the queue of another thread; each pop removes
\* exactly the task it returns from exactly one queue, each push and each
\* splice adds exactly the tasks pushed, so no task is returned twice or
\* lost; next_task returns null only if every queue is empty.
C25_QueueDiscipline ==
  [][/\ \A th \in Threads, t \in Recs : Popped(th, t) =>
          IF queue[th] # <<>>
          THEN /\ t = Head(queue[th])
               /\ queue' = [queue EXCEPT ![th] = Tail(@)]
          ELSE \E v \in Threads \ {th} :
                 /\ queue[v] # <<>>
                 /\ t = queue[v][Len(queue[v])]
                 /\ queue' = [queue EXCEPT ![v] = SubSeq(@, 1, Len(@) - 1)]
     /\ \A t \in Recs : Pushed(t) =>
          \E th \in Threads :
            /\ Acts(th) \/ Releasing(th)
            /\ queue' = [queue EXCEPT ![th] = <<t>> \o @]
     /\ (/\ queue' # queue
         /\ \A t \in Recs : ~Pushed(t) /\ \A th \in Threads : ~Popped(th, t)) =>
          \E th \in Threads :
            /\ Acts(th) /\ Top(th).pc = "admit"
            /\ queue' = [queue EXCEPT ![th] = defered_queue[th] \o @]
     /\ \A th \in Threads :
          (Acts(th) /\ Top(th).pc = "loop" /\ parallel
             /\ \A t \in Recs : ~Popped(th, t)) =>
            \A v \in Threads : queue[v] = <<>>]_vars

\* two tasks that were enqueued once each are executed by two threads, one
\* of them taken by a thief, and no queue holds a task
C25_Witness ==
  \E th \in Threads, v \in Threads :
    /\ th # v
    /\ current_task[th] \in Recs /\ current_task[v] \in Recs
    /\ current_task[th] # current_task[v]
    /\ state[current_task[th]] = "RUNNING" /\ state[current_task[v]] = "RUNNING"
    /\ enqueued[current_task[th]] = 1 /\ enqueued[current_task[v]] = 1
    /\ \A u \in Threads : queue[u] = <<>>

(* ----------------------- finished predecessors: claim ------------------ *)
\* C26: handle_task never adds the new task to the successor list of a task
\* that has finished (state FINISHED, or DESTROYED once its record was
\* recycled) and never increments unresolved_deps of the new task for it.
C26_NoWaitOnFinished ==
  [][\A r \in Recs : \A p \in Recs :
       (p \in preds'[r] /\ p \notin preds[r]) =>
          state[p] \notin {"FINISHED", "DESTROYED"}]_vars

(* ------------------ the bucket walk: specification and claim ----------- *)
\* single dependencies on two regions that share a bucket
MenuBucket ==
  {<<Dep("IN", AddrA)>>, <<Dep("OUT", AddrA)>>, <<Dep("OUT", AddrC)>>}

NextBucket ==
  \/ Submit(MenuBucket, {FALSE})
  \/ \E th \in Threads :
    \/ Wire(th)
    \/ Execute(th)
    \/ CompleteRoot(th)

SpecBucket == Init /\ [][NextBucket]_vars

\* the records of bucket b with address addr, newest first, up to and
\* including the first one with an OUT-like dependency
SameAddr(b, addr) == SelectSeq(b, LAMBDA e : e.addr = addr)

Window(b, addr) ==
  LET same == SameAddr(b, addr)
      outs == {j \in 1 .. Len(same) : IS_OUT_DEP(same[j].type)}
  IN  IF outs = {} THEN same
      ELSE SubSeq(same, 1, CHOOSE j \in outs : \A q \in outs : j <= q)

\* the tasks of the window a dependency of type type has to be ordered after
Ordered(b, addr, type) ==
  LET w == Window(b, addr)
  IN  {w[j].task : j \in {q \in 1 .. Len(w) :
                            IS_OUT_DEP(type) \/ IS_OUT_DEP(w[q].type)}}

\* handle_task of thread th adds the record of its dependency to the hash in
\* this step
AddStep(th) ==
  /\ Top(th).pc = "wire"
  /\ Acts(th)
  /\ local_deps' # local_deps

\* C27: when handle_task has added the record of a local dependency d of
\* task t, t is a successor of exactly the unfinished tasks among those of
\* the records with d's address up to and including the first OUT-like one,
\* all of them if d is OUT-like and those with an OUT-like record if d is
\* IN; no task that had finished when it was inspected is among them, and
\* the record (t, d, phase of t) is at the head of the bucket.
C27_SuccessorOfWindow ==
  [][/\ \A r \in Recs : \A p \in Recs :
          (p \in preds'[r] /\ p \notin preds[r]) =>
             state[p] \in {"CREATED", "RUNNING", "TEARDOWN"}
     /\ \A th \in Threads : AddStep(th) =>
          LET t == Top(th).task
              d == Top(th).deps[Top(th).i]
              b == local_deps[hash_gptr(d.addr)]
          IN  /\ preds'[t] \subseteq Ordered(b, d.addr, d.type)
              /\ \A p \in Ordered(b, d.addr, d.type) :
                   state[p] \in {"CREATED", "RUNNING", "TEARDOWN"}
                     => p \in preds'[t]
              /\ local_deps'[hash_gptr(d.addr)] =
                   <<[task |-> t, type |-> d.type, addr |-> d.addr,
                      phase |-> phase[t]]>> \o b]_vars

(* ------- candidates of a remote request: specification and claim ------- *)
\* writers of one region in up to MaxPhase + 2 phases, one remote reader
\* whose request names any of these phases, and the releases remote readers
\* send for their direct dependencies
NextScan ==
  \/ Submit(MenuOut, {FALSE})
  \/ PhaseBounded(Master, MaxPhase + 1)
  \/ \E th \in Threads :
    \/ Wire(th)
    \/ Execute(th)
    \/ PhaseEnd(th)
    \/ CompleteRootRemote(th)
    \/ Released(th)
    \/ /\ nremote < MaxRemote
       /\ \E ph \in 0 .. (MaxPhase + 1) :
            handle_remote_task(th, "IN", AddrA, ph)

SpecScan == Init /\ [][NextScan]_vars

\* release_unhandled_remote of thread th has passed the last record of the
\* bucket in this step
ScanEnd(th) ==
  /\ Top(th).pc = "ru_scan"
  /\ Acts(th)
  /\ stk'[th][Len(stk'[th])].pc \in {"ru_inc", "ru_commit"}

\* C28: at the end of the scan for a staged request with phase p_R, among
\* the tasks found active with an OUT-like record on the region, the
\* direct-dependency candidate has the smallest phase of those with phase
\* >= p_R and the fulfilment candidate the largest phase of those with
\* phase < p_R; a candidate is missing only if there is no such task.
C28_Candidates ==
  [][\A th \in Threads : ScanEnd(th) =>
       LET rdep == Head(unhandled_remote_deps)
           late == {x \in Top(th).seen : x[2] >= rdep.phase}
           early == {x \in Top(th).seen : x[2] < rdep.phase}
           d == Top(th).dcand
           c == Top(th).cand
       IN  /\ IF d = NULL THEN late = {}
              ELSE \E x \in late :
                     x[1] = d /\ \A y \in late : x[2] <= y[2]
           /\ IF c = NULL THEN early = {}
              ELSE \E x \in early :
                     x[1] = c /\ \A y \in early : y[2] <= x[2]]_vars

\* writers A, B, C of phases 0, 1, 2 and a request of phase 1: A is the
\* fulfilment candidate and B the direct-dependency candidate
C28_Witness ==
  /\ Top(Master).pc \in {"ru_inc", "ru_commit"}
  /\ unhandled_remote_deps # <<>>
  /\ Head(unhandled_remote_deps).phase = 1
  /\ \E a \in Recs, b \in Recs, c \in Recs :
       /\ phase[a] = 0 /\ phase[b] = 1 /\ phase[c] = 2
       /\ \A t \in {a, b, c} : state[t] = "CREATED"
       /\ Top(Master).cand = a
       /\ Top(Master).dcand = b

(* ------------------- one release per request: claim -------------------- *)
\* how often the request of remote task n is found: staged in the unhandled
\* list, attached to a task, released
RECURSIVE CountIn(_, _)
CountIn(s, n) ==
  IF s = <<>> THEN 0
  ELSE (IF Head(s).rtask = n THEN 1 ELSE 0) + CountIn(Tail(s), n)

RECURSIVE Attached(_, _)
Attached(ts, n) ==
  IF ts = {} THEN 0
  ELSE LET t == CHOOSE u \in ts : TRUE
       IN  CountIn(remote_successor[t], n) + Attached(ts \ {t}, n)

Releases(n) ==
  CountIn(SelectSeq(msgs, LAMBDA m : m.kind = "release"), n)

\* C29: every staged request is, at any time, either still in the unhandled
\* list, or attached to exactly one task that is active and will send the
\* release when it tears down, or released by exactly one message; when the
\* loop of release_unhandled_remote has ended the unhandled list is empty.
C29_OneRelease ==
  [][/\ \A n \in 1 .. nremote' :
          CountIn(unhandled_remote_deps', n) + Attached(Tasks, n)'
            + Releases(n)' = 1
     /\ \A t \in Tasks :
          remote_successor'[t] # <<>> => IS_ACTIVE_TASK(t)'
     /\ \A th \in Threads :
          (Top(th).pc = "ru_next" /\ stk'[th][Len(stk'[th])].pc = "drain")
             => unhandled_remote_deps' = <<>>
    ]_vars


(* ------------- writers wait for the remote reader: claim --------------- *)
\* release_unhandled_remote has made task d the direct-dependency candidate
\* of a request it has finished with, and the release of the remote reader
\* has not arrived
DirectPending(d) ==
  /\ owed[d] > 0
  /\ \E j \in 1 .. Len(msgs) :
       /\ msgs[j].kind = "direct"
       /\ msgs[j].local = d
       /\ CountIn(unhandled_remote_deps, msgs[j].rtask) = 0

\* task t begins executing in this step
Begins(t) == state[t] = "CREATED" /\ state'[t] = "RUNNING"

\* C30: once release_unhandled_remote has resolved a remote IN request on
\* region a, neither the direct-dependency candidate (the writer of lowest
\* phase among those with phase >= the request's) nor any other writer of a
\* with at least that phase begins executing before the release of the
\* remote reader has arrived.
C30_WritersBlocked ==
  [][\A d \in Recs : \A t \in Recs :
       (/\ DirectPending(d)
        /\ Writes(d, AddrA) /\ Writes(t, AddrA)
        /\ phase[t] >= phase[d])
         => ~Begins(t)]_vars


(* ------------- direct dependencies of remote tasks: specification ------ *)
\* the record dart_tasking_datadeps_handle_remote_direct allocates for
\* remote task n: type DIRECT, null address, the unit of the origin
DirectRec(n) == [rtask |-> n, addr |-> NULL, origin |-> "other", phase |-> 0]

\* dart_tasking_datadeps_handle_remote_direct: remote task n of another unit
\* waits for local task t.  Unless t is FINISHED the record is pushed on
\* t->remote_successor under the mutex of t, else the release is sent at
\* once.  The step is the test made under the mutex (or the unlocked test
\* that found t FINISHED).
handle_remote_direct(th, t) ==
  /\ ~crashed
  /\ AtProgress(th)
  /\ nremote' = nremote + 1
  /\ ret' = [fn |-> "handle_remote_direct", arg |-> "DIRECT", num |-> t,
             code |-> "DART_OK"]
  /\ IF state[t] # "FINISHED"
     THEN /\ mutex[t] = NoThread
          /\ remote_successor' =
               [remote_successor EXCEPT ![t] = <<DirectRec(nremote + 1)>> \o @]
          /\ UNCHANGED msgs
     ELSE /\ msgs' = Append(msgs, [kind |-> "release", to |-> "other",
                                   rtask |-> nremote + 1, local |-> NULL])
          /\ UNCHANGED remote_successor
  /\ UNCHANGED <<born, nreturned, decl, seqno, fin, href, state, parent,
                 num_children, unresolved_deps, phase, successor, dangling,
                 has_ref, mutex, depv, quev, memv, owed, ncreated, nphases,
                 ncompletes, histv, phase_bound, current_task, poolv, stk,
                 handles, crashed>>

\* the transport delivers the direct dependency of a remote task on a local
\* task that asked the other unit for a region
DirectInbound(th) ==
  /\ nremote < MaxRemote
  /\ \E t \in Recs :
       /\ \E j \in 1 .. Len(msgs) :
            msgs[j].kind = "datadep" /\ msgs[j].local = t
       /\ handle_remote_direct(th, t)

\* readers of a region of another unit and the direct dependencies that
\* unit sends back; no task has a local dependency
NextDirect ==
  \/ Submit({<<RemoteDep("IN", AddrA)>>}, {FALSE})
  \/ \E th \in Threads :
    \/ WireRemote(th)
    \/ CreateEnd(th)
    \/ RunTask(th)
    \/ BodyReturn(th)
    \/ TeardownBegin(th)
    \/ TeardownEnd(th)
    \/ DecParent(th)
    \/ Cleanup(th)
    \/ WorkerNoTask(th)
    \/ WorkerCheck(th)
    \/ CompleteRoot(th)
    \/ Released(th)
    \/ DirectInbound(th)

SpecDirect == Init /\ [][NextDirect]_vars

\* a call of handle_remote_direct happens in this step
DirectRequest == nremote' > nremote /\ ret'.fn = "handle_remote_direct"

\* C31: a call of handle_remote_direct either stages the record on a local
\* task that has not begun to release (and so releases it in its TEARDOWN)
\* or, the task being FINISHED, sends the release at once; a staged record
\* leaves the list of its task only with its release message.
C31_DirectReleasedOnce ==
  [][/\ DirectRequest =>
          LET t == ret'.num
              n == nremote'
          IN  \/ /\ remote_successor'[t] = <<DirectRec(n)>> \o remote_successor[t]
                 /\ msgs' = msgs
                 /\ state[t] \in {"CREATED", "RUNNING"}
              \/ /\ remote_successor' = remote_successor
                 /\ msgs' = Append(msgs, [kind |-> "release", to |-> "other",
                                          rtask |-> n, local |-> NULL])
                 /\ state[t] = "FINISHED"
     /\ \A t \in Recs :
          (remote_successor[t] # <<>> /\ remote_successor'[t] = <<>>)
            => msgs' = msgs \o ReleaseMsgs(remote_successor[t])
    ]_vars


(* -------------- task mutexes in the candidate search: claims ----------- *)
\* thread th handles the next record of the bucket in this step: it begins
\* with dart_mutex_lock(&task->mutex)
LocksNext(th) ==
  /\ Top(th).pc = "ru_scan"
  /\ Acts(th)
  /\ stk'[th][Len(stk'[th])].pc = "ru_scan"

\* the task mutexes thread th holds
Held(th) == {u \in Tasks : mutex[u] = th}

\* C32: when the thread in the candidate search of release_unhandled_remote
\* acquires the mutex of the next task it holds no other task mutex.
C32_OneMutexAtATime ==
  [][\A th \in Threads : LocksNext(th) => Held(th) = {}]_vars


\* writers of two regions whose addresses hash to the same bucket
MenuCollide == {<<Dep("OUT", AddrC), Dep("OUT", AddrA)>>}

\* as NextRemote, every task with two records in one bucket
NextCollide ==
  \/ Submit(MenuCollide, {FALSE})
  \/ \E th \in Threads :
    \/ Wire(th)
    \/ Execute(th)
    \/ CompleteRootRemote(th)
    \/ Inbound(th)

SpecCollide == Init /\ [][NextCollide]_vars

\* the task of the record thread th handles next in the candidate search,
\* NULL at the end of the bucket
NextInBucket(th) ==
  LET f == Top(th)
      bucket == local_deps[hash_gptr(Head(unhandled_remote_deps).addr)]
      rem == IF f.k = 0 - 1 THEN bucket ELSE Suffix(bucket, f.k)
  IN  IF rem = <<>> THEN NULL ELSE Head(rem).task

\* C33: the thread in the candidate search of release_unhandled_remote
\* never has to lock a task mutex it holds itself (as that of the
\* fulfilment candidate), so the search does not block forever on it.
C33_NoSelfLock ==
  \A th \in Threads :
    (Top(th).pc = "ru_scan" /\ NextInBucket(th) # NULL)
      => mutex[NextInBucket(th)] # th


(* ------------------- dependency counters: claims ----------------------- *)
\* task t sits in the runnable or the deferred queue of a thread
Queued(t) ==
  \E th \in Threads :
    \/ \E j \in 1 .. Len(queue[th]) : queue[th][j] = t
    \/ \E j \in 1 .. Len(defered_queue[th]) : defered_queue[th][j] = t

\* C34: every task that sits in a runnable or deferred queue or is RUNNING
\* has unresolved_deps = 0, and no step raises unresolved_deps of such a
\* task.
C34_RunnableIffZero ==
  [][\A t \in Recs :
       (Queued(t) \/ state[t] = "RUNNING")
         => /\ unresolved_deps[t] = 0
            /\ unresolved_deps'[t] <= unresolved_deps[t]]_vars


\* occurrences of task s in the task list l
RECURSIVE Occurs(_, _)
Occurs(l, s) ==
  IF l = <<>> THEN 0
  ELSE (IF Head(l) = s THEN 1 ELSE 0) + Occurs(Tail(l), s)

\* entries for s in the successor lists of the tasks of ps that have not yet
\* released their successors
RECURSIVE Entries(_, _)
Entries(ps, s) ==
  IF ps = {} THEN 0
  ELSE LET p == CHOOSE u \in ps : TRUE
       IN  (IF state[p] \in {"CREATED", "RUNNING"}
            THEN Occurs(successor[p], s) ELSE 0) + Entries(ps \ {p}, s)

\* remote dependencies of s that are outstanding: not released, or the
\* release parked on the deferred list
Outstanding(s) == owed[s] + Occurs(deferred_remote_releases, s)

\* C35: while no task mutex is held, unresolved_deps of every task that has
\* not started equals the number of its entries in the successor lists of
\* tasks that have not yet released their successors plus the number of
\* its outstanding remote dependencies.
C35_Accounting ==
  (\A u \in Tasks : mutex[u] = NoThread)
    => \A s \in Recs :
         state[s] = "CREATED"
           => unresolved_deps[s] = Entries(Recs, s) + Outstanding(s)


(* ---------------- DIRECT and IGNORE dependencies: specification -------- *)
\* dependency lists that name a task the application holds a handle of, a
\* null task, or nothing
MenuDirect ==
  {<<DirectDep(h)>> : h \in handles \cup {NULL}}
    \cup {<<Dep("OUT", AddrA), DirectDep(h)>> : h \in handles}
    \cup {<<IgnoreDep>>, <<Dep("OUT", AddrA)>>}

\* the master creates tasks with handles, two workers execute them; no
\* task_wait and no root task_complete
NextTarget ==
  \/ Submit(MenuDirect, {TRUE})
  \/ \E th \in Threads :
    \/ Wire(th)
    \/ WireDirect(th)
    \/ WireSkip(th)
    \/ Execute(th)

\* one thread more than NumThreads
SpecTarget == InitPool(NumThreads + 1) /\ [][NextTarget]_vars

\* the tasks r declared a DIRECT dependency on
Targets(r) ==
  {decl[r][j].task : j \in {q \in 1 .. Len(decl[r]) :
                              decl[r][q].type = "DIRECT"}} \ {NULL}

\* thread th handles, in this step, a dependency that is IGNORE or DIRECT on
\* a null or FINISHED task
WiresNothing(th) ==
  /\ Top(th).pc = "wire"
  /\ Acts(th)
  /\ LET dep == Top(th).deps[Top(th).i]
     IN  \/ dep.type = "IGNORE"
         \/ dep.type = "DIRECT" /\ dep.task = NULL
         \/ dep.type = "DIRECT" /\ dep.task # NULL
              /\ state[dep.task] = "FINISHED"

\* C36: a task with a DIRECT dependency on a task does not begin before the
\* function of that task has returned, whatever their phases; handling an
\* IGNORE dependency or a DIRECT dependency on a null or FINISHED task
\* leaves unresolved_deps, the predecessors and the successor lists as they
\* were.
C36_DirectOrdered ==
  [][/\ \A t2 \in Recs : Begins(t2) => \A t1 \in Targets(t2) : Done(t1)
     /\ \A th \in Threads : WiresNothing(th) =>
          /\ unresolved_deps'[Top(th).task] = unresolved_deps[Top(th).task]
          /\ preds'[Top(th).task] = preds[Top(th).task]
          /\ successor' = successor]_vars


(* ------------------- destruction of records: claim --------------------- *)
\* destroy_task pushes record t on the recycle list in this step
Destroys(t) == task_recycle_list' = <<t>> \o task_recycle_list

\* thread th, in handle_task after the task was marked FINISHED, reads
\* task->parent or task->has_ref in this step
ReadsAfterFinish(th) ==
  /\ Top(th).pc \in {"finished", "cleanup"}
  /\ Acts(th) \/ crashed' # crashed

\* C37: a record is destroyed only if it is not DESTROYED already, and the
\* executor does not read task->parent or task->has_ref of a record that
\* was destroyed, also when task_wait destroys the task of a handle.
C37_DestroyedOnce ==
  [][/\ \A t \in Recs : Destroys(t) => state[t] # "DESTROYED"
     /\ \A th \in Threads :
          ReadsAfterFinish(th) => state[Top(th).task] # "DESTROYED"]_vars


(* ----------------------- current task: claim --------------------------- *)
\* the positions of handle_task between set_current_task(task) and the
\* set_current_task that restores the caller's task
ExecPcs == {"body", "complete", "release", "finished", "cleanup"}

\* the frames of handle_task on the stack of thread th, outermost first
ExecFrames(th) == SelectSeq(stk[th], LAMBDA f : f.pc \in ExecPcs)

\* the task of the innermost handle_task of thread th, the root task if it
\* executes none
Executing(th) ==
  IF ExecFrames(th) = <<>> THEN Root
  ELSE ExecFrames(th)[Len(ExecFrames(th))].task

\* C38: the current-task slot of a thread is the task of its innermost
\* handle_task, from the call of the function to the end of the implicit
\* task_complete and the release, and after the return the task of the
\* handle_task around it (the root task if there is none), at any depth of
\* nesting; a step of a thread changes the slot of no other thread.
C38_CurrentTaskRestored ==
  [][/\ \A th \in Threads : current_task'[th] = Executing(th)'
     /\ \A th \in Threads :
          current_task'[th] # current_task[th] => Acts(th)]_vars

\* a thread executes a task inside the task_complete of a task it executes
\* inside the task_complete of a third
C38_Witness ==
  \E th \in Threads :
    /\ Len(ExecFrames(th)) = 3
    /\ Top(th).pc = "body"
    /\ current_task[th] = Top(th).task
    /\ ExecFrames(th)[2].task # Top(th).task


(* ------------------ create_task step by step: specification ------------ *)
\* create_task, the test made without the mutex: if (task_free_list != NULL);
\* two calls more than MaxCreates, for two creators in the second epoch,
\* counting the calls that have not got their record yet
AllocCheck(th) ==
  /\ ~crashed
  /\ Top(th).pc = IF th = Master THEN "main" ELSE "body"
  /\ LET allocating ==
           {u \in Threads :
              Top(u).pc \in {"alloc_lock", "alloc_pop", "alloc_calloc"}}
     IN  ncreated + Cardinality(allocating) < MaxCreates + 2
  /\ stk' = Push(th, [F0 EXCEPT !.task = NULL,
                        !.pc = IF task_free_list # <<>> THEN "alloc_lock"
                               ELSE "alloc_calloc"])
  /\ UNCHANGED <<ghostv, taskv, depv, quev, memv, envv, cntv, histv,
                 phase_bound, current_task, poolv, handles, crashed>>

\* pthread_mutex_lock(&task_recycle_mutex)
AllocLock(th) ==
  /\ ~crashed
  /\ Top(th).pc = "alloc_lock"
  /\ task_recycle_mutex = NoThread
  /\ task_recycle_mutex' = th
  /\ stk' = SetTop(th, [Top(th) EXCEPT !.pc = "alloc_pop"])
  /\ UNCHANGED <<ghostv, taskv, depv, quev, task_recycle_list,
                 task_free_list, envv, cntv, histv, phase_bound,
                 current_task, poolv, handles, crashed>>

\* the second test, under the mutex: the head of the free list is popped if
\* there is one; the mutex is unlocked; the fields are set, of the null
\* task if nothing was popped
AllocPop(th) ==
  /\ ~crashed
  /\ Top(th).pc = "alloc_pop"
  /\ task_recycle_mutex' = NoThread
  /\ IF task_free_list # <<>>
     THEN /\ task_free_list' = Tail(task_free_list)
          /\ InitRecord(th, Head(task_free_list), <<>>, FALSE, Below(th))
          /\ UNCHANGED crashed
     ELSE /\ crashed' = TRUE
          /\ UNCHANGED <<ghostv, taskv, depv, quev, task_recycle_list,
                         task_free_list, envv, cntv, histv, phase_bound,
                         current_task, poolv, stk, handles>>

\* the else branch: pthread_mutex_unlock(&task_recycle_mutex) by a thread
\* that has not locked it (undefined: nothing happens, or the mutex of
\* another thread is released), then calloc and the fields are set
AllocCalloc(th) ==
  /\ ~crashed
  /\ Top(th).pc = "alloc_calloc"
  /\ FreshRecs # {}
  /\ task_recycle_mutex' \in {task_recycle_mutex, NoThread}
  /\ InitRecord(th, Fresh, <<>>, FALSE, Below(th))
  /\ UNCHANGED <<task_free_list, crashed>>

\* the master and the tasks create tasks without dependencies, over two
\* epochs
NextCreate ==
  \E th \in Threads :
    \/ AllocCheck(th)
    \/ AllocLock(th)
    \/ AllocPop(th)
    \/ AllocCalloc(th)
    \/ CreateEnd(th)
    \/ RunTask(th)
    \/ BodyReturn(th)
    \/ TeardownBegin(th)
    \/ TeardownEnd(th)
    \/ DecParent(th)
    \/ Cleanup(th)
    \/ WorkerNoTask(th)
    \/ WorkerCheck(th)
    \/ CompleteRoot(th)

SpecCreate == Init /\ [][NextCreate]_vars

\* C39: create_task hands out a record no task lives in, a call that found
\* the free list non-empty without the mutex gets a record also if the list
\* is empty under the mutex, and task_recycle_mutex is unlocked only by the
\* thread that holds it.
C39_RecordOwnedAlone ==
  [][/\ \A r \in Recs : HandedOut(r) => state[r] \in {"NONE", "DESTROYED"}
     /\ \A th \in Threads :
          (Top(th).pc = "alloc_pop" /\ task_free_list = <<>>) => ~crashed'
     /\ \A th \in Threads :
          (Top(th).pc = "alloc_calloc" /\ Acts(th))
            => task_recycle_mutex = th]_vars


(* ------- tasks created by several threads: specification and claim ------- *)
\* a running task function calls create_task with two local dependencies
SpawnLocal(th) ==
  /\ Top(th).pc = "body"
  /\ \E deps \in MenuLocal : Len(deps) = 2 /\ CreateBegin(th, deps, FALSE)

NextCreators ==
  \/ Submit(MenuNone \cup {deps \in MenuLocal : Len(deps) = 2}, {FALSE})
  \/ \E th \in Threads :
    \/ SpawnLocal(th)
    \/ Wire(th)
    \/ Execute(th)
    \/ CompleteRoot(th)

SpecCreators == Init /\ [][NextCreators]_vars

\* the tasks entered in the successor list of p
Follows(p) == {s \in Tasks : Occurs(successor[p], s) > 0}

\* the tasks reached from the tasks of ts along at most n successor-list
\* entries
RECURSIVE Chain(_, _)
Chain(ts, n) ==
  IF n = 0 THEN ts
  ELSE Chain(ts \cup {s \in Tasks : \E p \in ts : s \in Follows(p)}, n - 1)

\* C40: in every reachable state no chain of successor-list entries leads
\* from a task back to itself.
C40_Acyclic == \A t \in Tasks : t \notin Chain(Follows(t), MaxTasks)

====
